---------------------------- MODULE Spec2Model ----------------------------
(***************************************************************************)
(* TangentCNC (src/script.js): spline sampling, G-code generation,         *)
(* G-code parsing, heading normalisation, the preview path and its player, *)
(* the editor canvas and the file import.                                  *)
(*                                                                         *)
(* Number representation.  The program computes in IEEE-754 doubles; the   *)
(* model computes the same expressions in exact scaled integers:           *)
(*   - control points: whole canvas pixels;                                *)
(*   - polyline samples: numerators over Den(r) = 2*r^3 pixels, which is   *)
(*     the exact value of the linear and Catmull-Rom expressions at        *)
(*     t = j/r;                                                            *)
(*   - numbers inside G-code text: thousandths (the three decimals that    *)
(*     formatNum prints);                                                  *)
(*   - angles: thousandths of a degree;                                    *)
(*   - machine settings: ten-thousandths (SettingDen).                     *)
(* The one place where the rounding of doubles is tracked is the sweep     *)
(* parameter t of the sampler, because the code compares and clamps it     *)
(* (t <= 1 + 1e-9, Math.min(t, 1)): see TDrift and the fp field of samples.*)
(*                                                                         *)
(* G-code text is a sequence of lines; a line is a sequence of             *)
(* whitespace-separated words (letter + number) followed by an optional    *)
(* ';' comment.  The regular expressions of the code are modelled by what  *)
(* they match on such lines.                                               *)
(***************************************************************************)
EXTENDS Integers, Sequences, FiniteSets, TLC

VARIABLES
    points,               \* script.js:3    control points, canvas pixels
    curveResolution,      \* script.js:11   sweep steps per spline piece
    machineSettings,      \* script.js:14   machining parameters
    poly,                 \* result of the last samplePolylinePoints call
    gcodeOutput,          \* textarea #gcodeOutput (base program)
    gcodeOutputOriented,  \* textarea #gcodeOutputOriented
    downloaded,           \* text handed to the last download
    parsed,               \* result of the last parseGCode call
    moves,                \* moves of the last buildPreviewFromGCode call
    prevAngle,            \* heading carried from one emitted move to the next
    emitted,              \* the last two headings an oriented generation emitted
    emitCount,            \* number of headings emitted so far
    rawAngle,             \* raw heading given to the last normalizeAngle call
    once,                 \* normalizeAngle(rawAngle, null); << >> before any call
    twice,                \* normalizeAngle(once, null); << >> before any call
    text,                 \* a G-code text under the parsers
    segments,             \* script.js:30  preview.segments
    totalLength,          \* script.js:31  preview.totalLength
    located,              \* the last distToPoint call: its d and its result
    measured,             \* the last direct call of an angle function
    oriented,             \* result of the last generateOrientedGCodeFromBase call
    selectedPoint,        \* script.js:4    index of the point under the pointer, << >> for null
    isDragging,           \* script.js:5
    deleteMode,           \* script.js:6
    touchStartPos,        \* script.js:7    << >> for null
    gesture,              \* the button or finger held, or the click owed; << >> for none
    playing,              \* script.js:32   preview.playing
    speedPxPerSec,        \* script.js:33   preview.speedPxPerSec
    currentDist,          \* script.js:34   preview.currentDist
    lastTs,               \* script.js:35   preview.lastTs, << >> for null
    mode,                 \* script.js:37   preview.mode
    gcodeLoaded,          \* script.js:38   preview.gcodeLoaded
    frames,               \* animation frames requested and not yet delivered
    reading,              \* texts of the files a FileReader is still reading
    alerted               \* the message of the last alert(), << >> when none

vars == << points, curveResolution, machineSettings, poly, gcodeOutput,
           gcodeOutputOriented, downloaded, parsed, moves, prevAngle,
           emitted, emitCount, rawAngle, once, twice, text, segments,
           totalLength, located, measured, oriented, selectedPoint,
           isDragging, deleteMode, touchStartPos, gesture, playing,
           speedPxPerSec, currentDist, lastTs, mode, gcodeLoaded, frames,
           reading, alerted >>

-----------------------------------------------------------------------------
(* Bounds of the model *)

MaxPoints == 3
MaxRes == 6
MaxEmitted == 8
MaxTextLines == 3

-----------------------------------------------------------------------------
(* Arithmetic helpers *)

Abs(n) == IF n < 0 THEN -n ELSE n

Sign(n) == IF n < 0 THEN -1 ELSE IF n > 0 THEN 1 ELSE 0

\* JavaScript's % operator: the remainder takes the sign of the dividend.
JsRem(a, m) == IF a >= 0 THEN a % m ELSE -((-a) % m)

-----------------------------------------------------------------------------
(* Doubles around the sweep parameter.                                     *)
(* Deviations from an ideal value are counted in units of 2^-53.           *)

\* 1e-9 of the loop guards "t <= 1 + 1e-9", as its reciprocal.
TolInv == 1000000000

\* The value the double t holds after r additions of the double 1/r
\* ("t = 1/r; ... t += 1/r"), minus 1, in units of 2^-53: the binary64
\* result of that sum for r = 1..13 (r = 10: t = 0.9999999999999999;
\* r = 9: t = 1.0000000000000002).
TDriftTable == << 0, 0, 0, 0, 0, -1, -2, 0, 2, -1, 2, 0, -2 >>

TDrift(r) == TDriftTable[r]

\* 1e-9 in units of 2^-53, rounded down.
TolUnits == 9007199

\* The loop guard "t <= 1 + 1e-9" at step j (t nominally j/r): at j = r the
\* drift of t decides, beyond it the whole steps do.
TWithin(j, r) ==
    \/ j < r
    \/ j = r /\ TDrift(r) <= TolUnits
    \/ j > r /\ (j - r) * TolInv <= r

\* Largest power of two not above m (m >= 1).
Pow2Floor(m) ==
    LET RECURSIVE Go(_)
        Go(p) == IF 2 * p <= m THEN Go(2 * p) ELSE p
    IN Go(1)

\* Round-to-nearest-even of the real number m + f*2^-53, for an integer
\* magnitude m >= 0 and a small deviation f: the deviation of the nearest
\* double from m.  Doubles in [2^e, 2^(e+1)) are 2^(e-52) apart.
RoundDev(m, f) ==
    IF m = 0 \/ f = 0 THEN f
    ELSE LET p == Pow2Floor(m)
             S == IF f > 0 THEN 2 * p ELSE IF m = p THEN m ELSE 2 * p
             q == Abs(f) \div S
             rem == Abs(f) % S
             k == IF 2 * rem > S THEN q + 1
                  ELSE IF 2 * rem < S THEN q
                  ELSE IF q % 2 = 0 THEN q ELSE q + 1
         IN Sign(f) * k * S

\* Deviation of the double "a + (b - a) * t" from b when t = 1 + d*2^-53
\* (a, b whole numbers): the product is rounded, then the sum.
LinearEndDev(a, b, d) ==
    LET c == b - a
        g == Sign(c) * RoundDev(Abs(c), Abs(c) * d)
    IN IF b = 0 THEN g ELSE Sign(b) * RoundDev(Abs(b), Sign(b) * g)

-----------------------------------------------------------------------------
(* Spline sampler *)

\* Denominator of the sample numerators for resolution r.
Den(r) == 2 * r * r * r

\* One coordinate of catmullRomSpline at t = j/r, as a numerator over Den(r).
CatmullCoord(c0, c1, c2, c3, j, r) ==
    (2 * c1) * r * r * r
    + (-c0 + c2) * j * r * r
    + (2 * c0 - 5 * c1 + 4 * c2 - c3) * j * j * r
    + (-c0 + 3 * c1 - 3 * c2 + c3) * j * j * j

catmullRomSpline(p0, p1, p2, p3, j, r) ==
    [ x |-> CatmullCoord(p0.x, p1.x, p2.x, p3.x, j, r),
      y |-> CatmullCoord(p0.y, p1.y, p2.y, p3.y, j, r) ]

\* A sample: numerators x, y over Den(r), and fp, what is known of the
\* doubles the program holds for it:
\*   "exact"  both equal the ideal value x/Den, y/Den;
\*   "off"    at least one differs from the ideal value;
\*   "near"   within rounding error of it (not tracked further).
Sample(x, y, fp) == [ x |-> x, y |-> y, fp |-> fp ]

\* The two-point branch: "for (t = 1/r; t <= 1 + 1e-9; t += 1/r)", t used
\* as it is.
LinearSweep(p1, p2, r) ==
    LET RECURSIVE Go(_)
        Go(j) ==
            IF ~TWithin(j, r) THEN << >>
            ELSE LET fp == IF j # r THEN "near"
                           ELSE IF LinearEndDev(p1.x, p2.x, TDrift(r)) = 0
                                   /\ LinearEndDev(p1.y, p2.y, TDrift(r)) = 0
                                THEN "exact" ELSE "off"
                 IN << Sample((p1.x * r + (p2.x - p1.x) * j) * 2 * r * r,
                              (p1.y * r + (p2.y - p1.y) * j) * 2 * r * r,
                              fp) >> \o Go(j + 1)
    IN Go(1)

\* The sweep of a piece as it would run with "tStart = 0": the joint with
\* the piece before is sampled a second time.
CatmullSweepFromZero(p0, p1, p2, p3, r) ==
    LET RECURSIVE Go(_)
        Go(j) ==
            IF ~TWithin(j, r) THEN << >>
            ELSE LET jc == IF j > r THEN r ELSE j
                     pt == catmullRomSpline(p0, p1, p2, p3, jc, r)
                 IN << Sample(pt.x, pt.y, "near") >> \o Go(j + 1)
    IN Go(0)

\* One Catmull-Rom piece: the same sweep, the spline evaluated at
\* Math.min(t, 1).  With t clamped to exactly 1 the blend of whole-number
\* control points is exact; with t left just below 1 it is not tracked.
CatmullSweep(p0, p1, p2, p3, r) ==
    LET RECURSIVE Go(_)
        Go(j) ==
            IF ~TWithin(j, r) THEN << >>
            ELSE LET jc == IF j > r THEN r ELSE j
                     pt == catmullRomSpline(p0, p1, p2, p3, jc, r)
                     fp == IF j >= r /\ TDrift(r) >= 0 THEN "exact" ELSE "near"
                 IN << Sample(pt.x, pt.y, fp) >> \o Go(j + 1)
    IN Go(1)

Max(a, b) == IF a > b THEN a ELSE b

Min(a, b) == IF a < b THEN a ELSE b

\* samplePolylinePoints() for control points pts and resolution r.
samplePolylinePoints(pts, r) ==
    LET n == Len(pts)
        first == Sample(pts[1].x * Den(r), pts[1].y * Den(r), "exact")
        RECURSIVE Pieces(_)
        Pieces(i) ==
            IF i > n - 1 THEN << >>
            ELSE CatmullSweep(pts[Max(1, i - 1)], pts[i], pts[i + 1],
                              pts[Min(n, i + 2)], r) \o Pieces(i + 1)
    IN IF n = 0 THEN << >>
       ELSE IF n = 1 THEN << first >>
       ELSE IF n = 2 THEN << first >> \o LinearSweep(pts[1], pts[2], r)
       ELSE << first >> \o Pieces(1)

-----------------------------------------------------------------------------
(* G-code text *)

\* Denominator of the machine settings' numeric values.
SettingDen == 10 * 1000

\* A word of a line: a letter and the number after it.  G and M words carry
\* their code (G1: 1, G90: 90), the other letters thousandths.  ok = FALSE is
\* a letter that no parsable number follows.
Word(l, v) == [ l |-> l, v |-> v, ok |-> TRUE ]

BadWord(l) == [ l |-> l, v |-> 0, ok |-> FALSE ]

\* The ';' comment of a line: its text, and the heading of an "ORI=...deg"
\* note in front of it (<< >> when there is none).
NoComment == [ text |-> "", ori |-> << >> ]

Comment(t) == [ text |-> t, ori |-> << >> ]

\* A line: its words, whether it holds a parenthesized comment, its ';'
\* comment, and cut: the words behind an opening parenthesis whose closing
\* one lies behind a ';' ("(X1 Y2 ; note)" has cut X1 Y2).
Line(w, c) ==
    [ words |-> w, paren |-> FALSE, inside |-> << >>, comment |-> c,
      cut |-> << >> ]

\* A line that is a parenthesized comment and nothing else: "(note)".
ParenLine ==
    [ words |-> << >>, paren |-> TRUE, inside |-> << >>, comment |-> NoComment,
      cut |-> << >> ]

\* A line that is a parenthesized comment holding the words w: "(<w>)".
ParenWordsLine(w) ==
    [ words |-> << >>, paren |-> TRUE, inside |-> w, comment |-> NoComment,
      cut |-> << >> ]

\* A line that is a parenthesized comment with a ';' inside, the words w
\* in front of the ';': "(<w> ; note)".
CutParenLine(w) ==
    [ words |-> << >>, paren |-> FALSE, inside |-> << >>,
      comment |-> Comment("note)"), cut |-> w ]

\* raw.replace(/;.*$/,'').trim(): what is in front of the first ';',
\* parenthesized comments included.
StripLineComment(line) == line.words \o line.inside \o line.cut

\* formatNum(n) = Number.parseFloat(n).toFixed(3) of the number num/den, in
\* thousandths: toFixed rounds the magnitude to the nearest thousandth, a
\* tie to the larger one.
formatNum(num, den) ==
    Sign(num) * ((Abs(num) \div den) * 1000
                 + (2 * (Abs(num) % den) * 1000 + den) \div (2 * den))

\* The X and Y the generators print for a sample: x * scaleFactor and
\* -y * scaleFactor.
ProgX(p, r, ms) == formatNum(p.x * ms.scaleFactor.num, Den(r) * ms.scaleFactor.den)

ProgY(p, r, ms) == formatNum(-p.y * ms.scaleFactor.num, Den(r) * ms.scaleFactor.den)

\* The move lines as they would be with the loop "for (let i = 0; ...":
\* the first sample gets a G1 line of its own after the plunge.
BaseMovesFromFirst(pl, r, ms) ==
    IF Len(pl) = 0 THEN << >>
    ELSE << Line(<< Word("G", 0), Word("Z", formatNum(ms.safeHeight, SettingDen)) >>,
                 Comment("Safe height")),
            Line(<< Word("G", 0), Word("X", ProgX(pl[1], r, ms)),
                    Word("Y", ProgY(pl[1], r, ms)) >>, NoComment),
            Line(<< Word("G", 1), Word("Z", formatNum(ms.cutDepth, SettingDen)),
                    Word("F", formatNum(ms.feedRate, SettingDen)) >>,
                 Comment("Plunge to cut depth")) >>
         \o [ i \in 1..Len(pl) |->
                Line(<< Word("G", 1), Word("X", ProgX(pl[i], r, ms)),
                        Word("Y", ProgY(pl[i], r, ms)),
                        Word("F", formatNum(ms.feedRate, SettingDen)) >>, NoComment) ]
         \o << Line(<< Word("G", 0), Word("Z", formatNum(ms.safeHeight, SettingDen)) >>,
                    Comment("Retract")) >>

\* The lines generateGCodeString pushes for the polyline.
BaseMoves(pl, r, ms) ==
    IF Len(pl) = 0 THEN << >>
    ELSE << Line(<< Word("G", 0), Word("Z", formatNum(ms.safeHeight, SettingDen)) >>,
                 Comment("Safe height")),
            Line(<< Word("G", 0), Word("X", ProgX(pl[1], r, ms)),
                    Word("Y", ProgY(pl[1], r, ms)) >>, NoComment),
            Line(<< Word("G", 1), Word("Z", formatNum(ms.cutDepth, SettingDen)),
                    Word("F", formatNum(ms.feedRate, SettingDen)) >>,
                 Comment("Plunge to cut depth")) >>
         \o [ i \in 1..(Len(pl) - 1) |->
                Line(<< Word("G", 1), Word("X", ProgX(pl[i + 1], r, ms)),
                        Word("Y", ProgY(pl[i + 1], r, ms)),
                        Word("F", formatNum(ms.feedRate, SettingDen)) >>, NoComment) ]
         \o << Line(<< Word("G", 0), Word("Z", formatNum(ms.safeHeight, SettingDen)) >>,
                    Comment("Retract")) >>

UnitCode(ms) == IF ms.unit = "inch" THEN 20 ELSE 21

\* generateGCodeString() for control points pts, resolution r, settings ms.
generateGCodeString(pts, r, ms) ==
    << Line(<< >>, Comment("TangentCNC G-code")),
       Line(<< >>, Comment("Generated:")),
       Line(<< >>, Comment("Units:")),
       Line(<< >>, Comment("Scale:")),
       Line(<< Word("G", 90) >>, Comment("Absolute positioning")),
       Line(<< Word("G", UnitCode(ms)) >>, Comment("Unit:")),
       Line(<< Word("G", 17) >>, Comment("XY plane")),
       Line(<< Word("F", formatNum(ms.rapidRate, SettingDen)) >>,
            Comment("Rapid feed rate")) >>
    \o BaseMoves(samplePolylinePoints(pts, r), r, ms)
    \o << Line(<< Word("M", 2) >>, Comment("Program end")) >>

-----------------------------------------------------------------------------
(* Regular expressions of the parsers, on the words of a line *)

\* raw.replace(/;.*$/,'').replace(/\(.*?\)/g,'').trim(): the ';' comment
\* goes first, then every parenthesis pair that is still whole; what stays
\* is the words and what an unclosed parenthesis holds.
StripComments(line) == line.words \o line.cut

\* /[xX]/.test(line) and the like: the letter occurs.
HasLetter(w, l) == \E i \in 1..Len(w) : w[i].l = l

\* /[gG][0-9]+/.test(line): a G followed by digits.
HasGWord(w) == \E i \in 1..Len(w) : w[i].l = "G" /\ w[i].ok

\* /[gG]0\s/.test(line) || /[gG]1\s/.test(line): G0 or G1 with whitespace
\* after it, that is, not the last word of the trimmed line.
IsMove(w) ==
    \E i \in 1..(Len(w) - 1) : w[i].l = "G" /\ w[i].ok /\ w[i].v \in {0, 1}

\* The match as it would be if a letter without a number counted as 0
\* ("parseFloat(...) || 0" on the rest of the word).
MatchBadAsZero(w, l) ==
    LET hits == { i \in 1..Len(w) : w[i].l = l }
    IN IF hits = {} THEN << >>
       ELSE LET first == w[CHOOSE i \in hits : \A k \in hits : i <= k]
            IN << IF first.ok THEN first.v ELSE 0 >>

\* line.match(/[xX](-?\d*\.?\d+)/) and parseFloat of its group: the first
\* place where the letter is followed by a number; << >> for no match.
Match(w, l) ==
    LET hits == { i \in 1..Len(w) : w[i].l = l /\ w[i].ok }
    IN IF hits = {} THEN << >>
       ELSE << w[CHOOSE i \in hits : \A k \in hits : i <= k].v >>

\* line.match(/[gG]([01])\s/)
MatchG01(w) ==
    LET hits == { i \in 1..(Len(w) - 1) :
                    w[i].l = "G" /\ w[i].ok /\ w[i].v \in {0, 1} }
    IN IF hits = {} THEN << >>
       ELSE << w[CHOOSE i \in hits : \A k \in hits : i <= k].v >>

\* The update as it would be without the "if (m)": a line that omits the
\* field forgets its value.
UpdateForget(last, m) == m

\* "if (m) last = parseFloat(m[1])"
Update(last, m) == IF m # << >> THEN m ELSE last

-----------------------------------------------------------------------------
(* Parsers.  A canvas position read back from text is a pair of numerators *)
(* over den.                                                               *)

Canvas(x, y, den) == [ x |-> x, y |-> y, den |-> den ]

\* "out.push({ x: lastX / sf, y: -lastY / sf })" of parseGCode; the file's
\* second copy of parseGCode has "out.push({ x: lastX, y: lastY })".
ParseConvert(lastX, lastY, ms, copy) ==
    IF copy = 1
    THEN Canvas(lastX * ms.scaleFactor.den, -lastY * ms.scaleFactor.den,
                1000 * ms.scaleFactor.num)
    ELSE Canvas(lastX, lastY, 1000)

\* The loop of parseGCode (the same in both copies of the file).
ParseLoop(txt, ms, copy) ==
    LET RECURSIVE Go(_, _, _)
        Go(i, lastX, lastY) ==
            IF i > Len(txt) THEN << >>
            ELSE LET w == StripComments(txt[i])
                 IN IF w = << >> THEN Go(i + 1, lastX, lastY)
                    ELSE IF ~HasGWord(w) /\ ~HasLetter(w, "X") /\ ~HasLetter(w, "Y")
                    THEN Go(i + 1, lastX, lastY)
                    ELSE LET nx == Update(lastX, Match(w, "X"))
                             ny == Update(lastY, Match(w, "Y"))
                         IN (IF nx # << >> /\ ny # << >>
                             THEN << ParseConvert(nx[1], ny[1], ms, copy) >>
                             ELSE << >>) \o Go(i + 1, nx, ny)
    IN Go(1, << >>, << >>)

\* parseGCode(text)
parseGCode(txt, ms) == ParseLoop(txt, ms, 1)

\* parseGCode(text) of the file's second copy
parseGCode2(txt, ms) == ParseLoop(txt, ms, 2)

\* "canvasX = lastX / scaleFactor; canvasY = -lastY / scaleFactor" of
\* buildPreviewFromGCode; the file's second copy has
\* "canvasY = lastY / machineSettings.scaleFactor".
PreviewConvert(lastX, lastY, ms, copy) ==
    IF copy = 1
    THEN Canvas(lastX * ms.scaleFactor.den, -lastY * ms.scaleFactor.den,
                1000 * ms.scaleFactor.num)
    ELSE Canvas(lastX * ms.scaleFactor.den, lastY * ms.scaleFactor.den,
                1000 * ms.scaleFactor.num)

\* The moves loop of buildPreviewFromGCode (the same in both copies):
\* moves.push({ x: canvasX, y: canvasY, c: lastC })
PreviewMoves(txt, ms, copy) ==
    LET RECURSIVE Go(_, _, _, _)
        Go(i, lastX, lastY, lastC) ==
            IF i > Len(txt) THEN << >>
            ELSE LET w == StripComments(txt[i])
                 IN IF w = << >> THEN Go(i + 1, lastX, lastY, lastC)
                    ELSE IF ~IsMove(w) /\ ~HasLetter(w, "X") /\ ~HasLetter(w, "Y")
                    THEN Go(i + 1, lastX, lastY, lastC)
                    ELSE LET nx == Update(lastX, Match(w, "X"))
                             ny == Update(lastY, Match(w, "Y"))
                             nc == Update(lastC, Match(w, "C"))
                         IN (IF nx # << >> /\ ny # << >>
                             THEN << [ p |-> PreviewConvert(nx[1], ny[1], ms, copy),
                                       c |-> nc ] >>
                             ELSE << >>) \o Go(i + 1, nx, ny, nc)
    IN Go(1, << >>, << >>, << >>)

\* The moves of buildPreviewFromGCode(gcodeText)
buildPreviewFromGCode(txt, ms) == PreviewMoves(txt, ms, 1)

\* The moves of buildPreviewFromGCode(gcodeText) of the file's second copy
buildPreviewFromGCode2(txt, ms) == PreviewMoves(txt, ms, 2)

-----------------------------------------------------------------------------
(* Headings *)

\* tan((k + 1/2) degrees) * 10000 for k = 0..44, rounded down.
TanHalfTable ==
    << 87, 261, 436, 611, 787, 962, 1139, 1316, 1494, 1673, 1853, 2034,
       2216, 2400, 2586, 2773, 2962, 3152, 3345, 3541, 3738, 3939, 4142,
       4348, 4557, 4769, 4985, 5205, 5429, 5657, 5890, 6128, 6370, 6618,
       6872, 7132, 7399, 7673, 7954, 8243, 8540, 8847, 9163, 9489, 9826 >>

\* atan(lo/hi) in degrees, to the nearest whole degree (0 <= lo <= hi, hi > 0).
AtanDeg(lo, hi) ==
    Cardinality({ k \in 1..45 : TanHalfTable[k] * hi < lo * 10000 })

\* Math.atan2(dy, dx) * 180 / Math.PI, to the nearest whole degree, in
\* (-180, 180].
Atan2Deg(dy, dx) ==
    LET ax == Abs(dx)
        ay == Abs(dy)
        th == IF ax = 0 /\ ay = 0 THEN 0
              ELSE IF ay <= ax THEN AtanDeg(ay, ax) ELSE 90 - AtanDeg(ax, ay)
    IN IF dx >= 0 THEN (IF dy >= 0 THEN th ELSE -th)
       ELSE (IF dy >= 0 THEN 180 - th ELSE IF th = 0 THEN 180 ELSE th - 180)

\* Variant of angleDeg: the canvas dy taken as it is, without "dy = -dyCanvas".
angleDegOfCanvas(dx, dyCanvas) ==
    JsRem(JsRem(Atan2Deg(dyCanvas, dx) * 1000, 360000) + 360000, 360000)

\* angleDeg(dx, dyCanvas), in thousandths of a degree.
angleDeg(dx, dyCanvas) ==
    LET dy == -dyCanvas
        ang == Atan2Deg(dy, dx) * 1000
    IN JsRem(JsRem(ang, 360000) + 360000, 360000)

\* The fold as it would be with "if" in place of "while": one turn at most
\* is taken off or added.
FoldSignedOnce(a) ==
    IF a > 180000 THEN a - 360000
    ELSE IF a <= -180000 THEN a + 360000
    ELSE a

\* "while (normalized > 180) normalized -= 360;
\*  while (normalized <= -180) normalized += 360;"
FoldSigned(a) ==
    LET RECURSIVE Down(_)
        Down(n) == IF n > 180000 THEN Down(n - 360000) ELSE n
        RECURSIVE Up(_)
        Up(n) == IF n <= -180000 THEN Up(n + 360000) ELSE n
    IN Up(Down(a))

\* Variant of FoldUnsigned: the remainder alone, "normalized % 360".
FoldUnsignedOnce(a) == JsRem(a, 360000)

\* "normalized = ((normalized % 360) + 360) % 360"
FoldUnsigned(a) == JsRem(JsRem(a, 360000) + 360000, 360000)

\* "if (diff > 180) normalized -= 360; else if (diff < -180) normalized += 360"
ShortestStep(normalized, prev) ==
    LET diff == normalized - prev
    IN IF diff > 180000 THEN normalized - 360000
       ELSE IF diff < -180000 THEN normalized + 360000
       ELSE normalized

\* normalizeAngle(angle, prevAngle) under settings ms; prev is << >> for null.
normalizeAngle(angle, prev, ms) ==
    LET withOffset == angle + ms.angleOffset
        normalized == IF ms.angleMode = "-180-180" THEN FoldSigned(withOffset)
                      ELSE FoldUnsigned(withOffset)
    IN IF ms.shortestPath /\ prev # << >>
       THEN ShortestStep(normalized, prev[1])
       ELSE normalized

\* Variant of getAngleDifference: the folded difference without Math.abs.
getAngleDifferenceSigned(angle1, angle2) == FoldSigned(angle2 - angle1)

\* getAngleDifference(angle1, angle2)
getAngleDifference(angle1, angle2) == Abs(FoldSigned(angle2 - angle1))

-----------------------------------------------------------------------------
(* Playback path.  Lengths and distances along the path are whole numbers  *)
(* of the unit of the canvas positions they come from (1/den pixel).       *)

\* 1e-6 of "len <= 1e-6", as its reciprocal.
TinyInv == 1000000

\* Largest component for which the squares below stay within the integers
\* of the model; longer differences are measured in coarser steps.
HypotLimit == 30000

\* Largest whole number whose square is not above n.
ISqrt(n) ==
    LET RECURSIVE Go(_, _)
        Go(lo, hi) ==
            IF lo = hi THEN lo
            ELSE LET mid == (lo + hi + 1) \div 2
                 IN IF mid * mid <= n THEN Go(mid, hi) ELSE Go(lo, mid - 1)
    IN Go(0, 46340)

\* Math.hypot(dx, dy), to the whole unit below.
Hypot(dx, dy) ==
    LET k == Max(Abs(dx), Abs(dy)) \div HypotLimit + 1
        ax == Abs(dx) \div k
        ay == Abs(dy) \div k
    IN k * ISqrt(ax * ax + ay * ay)

\* "angleDiff = (a.c !== null && b.c !== null) ? getAngleDifference(a.c, b.c) : 0"
MoveAngleDiff(a, b) ==
    IF a.c # << >> /\ b.c # << >> THEN getAngleDifference(a.c[1], b.c[1]) ELSE 0

\* Variant of Segment: every segment measured from the start of the path.
SegmentFromZero(a, b, len, cum) ==
    [ x1 |-> a.p.x, y1 |-> a.p.y, x2 |-> b.p.x, y2 |-> b.p.y, den |-> b.p.den,
      len |-> len, cumStart |-> 0, cumEnd |-> len,
      angle |-> b.c, angleDiff |-> MoveAngleDiff(a, b) ]

\* The segment buildPreviewFromGCode stores for the moves a, b at distance
\* cum along the path.
Segment(a, b, len, cum) ==
    [ x1 |-> a.p.x, y1 |-> a.p.y, x2 |-> b.p.x, y2 |-> b.p.y, den |-> b.p.den,
      len |-> len, cumStart |-> cum, cumEnd |-> cum + len,
      angle |-> b.c, angleDiff |-> MoveAngleDiff(a, b) ]

\* Variant of PreviewSegments: the loop without "if (len <= 1e-6) continue".
PreviewSegmentsKeepAll(mv) ==
    LET RECURSIVE Go(_, _)
        Go(i, cum) ==
            IF i > Len(mv) THEN << >>
            ELSE LET a == mv[i - 1]
                     b == mv[i]
                     len == Hypot(b.p.x - a.p.x, b.p.y - a.p.y)
                 IN << Segment(a, b, len, cum) >> \o Go(i + 1, cum + len)
    IN Go(2, 0)

\* The segments loop of buildPreviewFromGCode over its moves: a pair of
\* moves no further apart than 1e-6 pixel stores nothing.
PreviewSegments(mv) ==
    LET RECURSIVE Go(_, _)
        Go(i, cum) ==
            IF i > Len(mv) THEN << >>
            ELSE LET a == mv[i - 1]
                     b == mv[i]
                     len == Hypot(b.p.x - a.p.x, b.p.y - a.p.y)
                 IN IF len <= b.p.den \div TinyInv THEN Go(i + 1, cum)
                    ELSE << Segment(a, b, len, cum) >> \o Go(i + 1, cum + len)
    IN Go(2, 0)

\* "preview.totalLength = cum" after the loop.
PreviewTotalLength(segs) ==
    IF segs = << >> THEN 0 ELSE segs[Len(segs)].cumEnd

\* What distToPoint returns for a place on a segment: the position as
\* numerators over den, the tangent (tx, ty) with its length tl, and the
\* segment's angle and angleDiff.
Located(x, y, den, seg) ==
    [ x |-> x, y |-> y, den |-> den,
      tx |-> seg.x2 - seg.x1, ty |-> seg.y2 - seg.y1,
      tl |-> IF Hypot(seg.x2 - seg.x1, seg.y2 - seg.y1) = 0 THEN 1
             ELSE Hypot(seg.x2 - seg.x1, seg.y2 - seg.y1),
      angle |-> seg.angle, angleDiff |-> seg.angleDiff ]

\* Variant of distToPoint: nothing past the end of the path.
distToPointNullPastEnd(segs, d) ==
    LET hits == { i \in 1..Len(segs) : d <= segs[i].cumEnd }
    IN IF segs = << >> \/ hits = {} THEN << >>
       ELSE LET seg == segs[CHOOSE i \in hits : \A k \in hits : i <= k]
            IN << Located(seg.x1 * seg.len + (seg.x2 - seg.x1) * (d - seg.cumStart),
                          seg.y1 * seg.len + (seg.y2 - seg.y1) * (d - seg.cumStart),
                          seg.den * seg.len, seg) >>

\* Variant of distToPoint: the segment is the first one that ends after d,
\* "d < seg.cumEnd".
distToPointStrict(segs, d) ==
    LET hits == { i \in 1..Len(segs) : d < segs[i].cumEnd }
    IN IF segs = << >> THEN << >>
       ELSE IF hits # {}
       THEN LET seg == segs[CHOOSE i \in hits : \A k \in hits : i <= k]
            IN << Located(seg.x1 * seg.len + (seg.x2 - seg.x1) * (d - seg.cumStart),
                          seg.y1 * seg.len + (seg.y2 - seg.y1) * (d - seg.cumStart),
                          seg.den * seg.len, seg) >>
       ELSE LET last == segs[Len(segs)]
            IN << Located(last.x2, last.y2, last.den, last) >>

\* distToPoint(d) over the segments segs; << >> is null.
distToPoint(segs, d) ==
    LET hits == { i \in 1..Len(segs) : d <= segs[i].cumEnd }
    IN IF segs = << >> THEN << >>
       ELSE IF hits # {}
       THEN LET seg == segs[CHOOSE i \in hits : \A k \in hits : i <= k]
            IN IF seg.len > 0
               THEN << Located(seg.x1 * seg.len + (seg.x2 - seg.x1) * (d - seg.cumStart),
                               seg.y1 * seg.len + (seg.y2 - seg.y1) * (d - seg.cumStart),
                               seg.den * seg.len, seg) >>
               ELSE << Located(seg.x1, seg.y1, seg.den, seg) >>
       ELSE LET last == segs[Len(segs)]
            IN << Located(last.x2, last.y2, last.den, last) >>

-----------------------------------------------------------------------------
(* Oriented generation *)

\* "; ORI=<heading>deg" and the line's former comment after it.
OriComment(angle, t) == [ text |-> t, ori |-> << formatNum(angle, 1000) >> ]

\* Math.hypot(dx, dy) > 1e-6 for a difference of numbers with three
\* decimals (thousandths): any difference other than zero.
HypotAbove(dx, dy) == dx # 0 \/ dy # 0

\* First pass of generateOrientedGCodeFromBase: the XY position after every
\* line that is not empty once its ';' comment is removed.
BaseXY(base) ==
    LET RECURSIVE Go(_, _, _)
        Go(i, lastX, lastY) ==
            IF i > Len(base) THEN << >>
            ELSE IF StripLineComment(base[i]) = << >> /\ ~base[i].paren
            THEN Go(i + 1, lastX, lastY)
            ELSE LET nx == Update(lastX, Match(StripLineComment(base[i]), "X"))
                     ny == Update(lastY, Match(StripLineComment(base[i]), "Y"))
                 IN (IF nx # << >> /\ ny # << >>
                     THEN << [ x |-> nx[1], y |-> ny[1] ] >> ELSE << >>)
                    \o Go(i + 1, nx, ny)
    IN Go(1, << >>, << >>)

\* The raw heading of move number k (counted from 0) of the second pass.
BaseTangent(mv, k) ==
    IF k > 0
    THEN LET dx == mv[k + 1].x - mv[k].x
             dy == mv[k + 1].y - mv[k].y
         IN IF HypotAbove(dx, dy) THEN angleDeg(dx, dy) ELSE 0
    ELSE IF Len(mv) > 1
    THEN LET dx == mv[2].x - mv[1].x
             dy == mv[2].y - mv[1].y
         IN IF HypotAbove(dx, dy) THEN angleDeg(dx, dy) ELSE 0
    ELSE 0

\* The line the second pass rebuilds: G, X, Y, Z, C, F and the ORI comment.
OrientedLine(w, lastX, lastY, angle, comment) ==
    LET g == MatchG01(w)
        z == Match(w, "Z")
        f == Match(w, "F")
    IN [ words |->
            (IF g # << >> THEN << Word("G", g[1]) >> ELSE << >>)
            \o (IF Match(w, "X") # << >>
                THEN << Word("X", formatNum(lastX, 1000)) >> ELSE << >>)
            \o (IF Match(w, "Y") # << >>
                THEN << Word("Y", formatNum(lastY, 1000)) >> ELSE << >>)
            \o (IF z # << >> THEN << Word("Z", z[1]) >> ELSE << >>)
            \o << Word("C", formatNum(angle, 1000)) >>
            \o (IF f # << >> THEN << Word("F", f[1]) >> ELSE << >>),
         paren |-> FALSE,
         inside |-> << >>,
         comment |-> OriComment(angle, comment.text),
         cut |-> << >> ]

\* generateOrientedGCodeFromBase(baseGcode)
generateOrientedGCodeFromBase(base, ms) ==
    LET mv == BaseXY(base)
        RECURSIVE Go(_, _, _, _, _)
        Go(i, lastX, lastY, moveIndex, prev) ==
            IF i > Len(base) THEN << >>
            ELSE LET raw == base[i]
                     w == StripLineComment(raw)
                 IN IF w = << >> /\ ~raw.paren
                    THEN << raw >> \o Go(i + 1, lastX, lastY, moveIndex, prev)
                    ELSE IF ~IsMove(w) /\ ~HasLetter(w, "X") /\ ~HasLetter(w, "Y")
                    THEN << raw >> \o Go(i + 1, lastX, lastY, moveIndex, prev)
                    ELSE LET nx == Update(lastX, Match(w, "X"))
                             ny == Update(lastY, Match(w, "Y"))
                         IN IF nx # << >> /\ ny # << >> /\ moveIndex < Len(mv)
                            THEN LET angle == normalizeAngle(BaseTangent(mv, moveIndex),
                                                             prev, ms)
                                 IN << OrientedLine(w, nx[1], ny[1], angle, raw.comment) >>
                                    \o Go(i + 1, nx, ny, moveIndex + 1, << angle >>)
                            ELSE << raw >> \o Go(i + 1, nx, ny, moveIndex, prev)
    IN Go(1, << >>, << >>, 0, << >>)

\* The heading of polyline sample i in generateOrientedGCodeFromPoints,
\* before normalisation: the first from the segment out of it, the others
\* from the segment into them.
PointsTangent(pl, i) ==
    IF i = 1
    THEN IF Len(pl) > 1
         THEN angleDeg(pl[2].x - pl[1].x, pl[2].y - pl[1].y)
         ELSE 0
    ELSE angleDeg(pl[i].x - pl[i - 1].x, pl[i].y - pl[i - 1].y)

\* The headings generateOrientedGCodeFromPoints emits, one per sample:
\* c0 = normalizeAngle(c0, null), then normalizeAngle(c, prevAngle).
PointsHeadings(pl, ms) ==
    LET RECURSIVE Go(_, _)
        Go(i, prev) ==
            IF i > Len(pl) THEN << >>
            ELSE LET c == normalizeAngle(PointsTangent(pl, i), prev, ms)
                 IN << c >> \o Go(i + 1, << c >>)
    IN Go(1, << >>)

\* The lines generateOrientedGCodeFromPoints pushes for the polyline.
OrientedMoves(pl, r, ms) ==
    IF Len(pl) = 0 THEN << >>
    ELSE LET c == PointsHeadings(pl, ms)
         IN << Line(<< Word("G", 0), Word("Z", formatNum(ms.safeHeight, SettingDen)) >>,
                    Comment("Safe height")),
               Line(<< Word("G", 0), Word("X", ProgX(pl[1], r, ms)),
                       Word("Y", ProgY(pl[1], r, ms)),
                       Word("C", formatNum(c[1], 1000)) >>, OriComment(c[1], "")),
               Line(<< Word("G", 1), Word("Z", formatNum(ms.cutDepth, SettingDen)),
                       Word("F", formatNum(ms.feedRate, SettingDen)) >>,
                    Comment("Plunge to cut depth")) >>
            \o [ i \in 1..(Len(pl) - 1) |->
                   Line(<< Word("G", 1), Word("X", ProgX(pl[i + 1], r, ms)),
                           Word("Y", ProgY(pl[i + 1], r, ms)),
                           Word("C", formatNum(c[i + 1], 1000)),
                           Word("F", formatNum(ms.feedRate, SettingDen)) >>,
                        OriComment(c[i + 1], "")) ]
            \o << Line(<< Word("G", 0), Word("Z", formatNum(ms.safeHeight, SettingDen)) >>,
                       Comment("Retract")) >>

\* generateOrientedGCodeFromPoints()
generateOrientedGCodeFromPoints(pts, r, ms) ==
    << Line(<< >>, Comment("TangentCNC G-code (with orientation)")),
       Line(<< >>, Comment("Generated:")),
       Line(<< >>, Comment("Units:")),
       Line(<< >>, Comment("Scale:")),
       Line(<< >>, Comment("Orientation C:")),
       Line(<< >>, Comment("ORI:")),
       Line(<< Word("G", 90) >>, Comment("Absolute positioning")),
       Line(<< Word("G", UnitCode(ms)) >>, Comment("Unit:")),
       Line(<< Word("G", 17) >>, Comment("XY plane")),
       Line(<< Word("F", formatNum(ms.rapidRate, SettingDen)) >>,
            Comment("Rapid feed rate")) >>
    \o OrientedMoves(samplePolylinePoints(pts, r), r, ms)
    \o << Line(<< Word("M", 2) >>, Comment("Program end")) >>

\* !baseGcode.trim(): nothing but whitespace.
IsBlankText(txt) ==
    \A i \in 1..Len(txt) :
        /\ txt[i].words = << >> /\ ~txt[i].paren
        /\ txt[i].comment = NoComment /\ txt[i].cut = << >>

\* l.startsWith('; TangentCNC') || l.startsWith('; Generated:')
IsStampLine(l) ==
    /\ l.words = << >>
    /\ l.cut = << >>
    /\ ~l.paren
    /\ l.comment.ori = << >>
    /\ l.comment.text \in { "TangentCNC G-code",
                            "TangentCNC G-code (with orientation)", "Generated:" }

\* generateOrientedGCodeString() with base the value of #gcodeOutput
generateOrientedGCodeString(base, pts, r, ms) ==
    IF IsBlankText(base) THEN generateOrientedGCodeFromPoints(pts, r, ms)
    ELSE << Line(<< >>, Comment("TangentCNC G-code (with orientation)")),
            Line(<< >>, Comment("Generated:")),
            Line(<< >>, Comment("Source:")) >>
         \o SelectSeq(generateOrientedGCodeFromBase(base, ms),
                      LAMBDA l : ~IsStampLine(l))

-----------------------------------------------------------------------------
(* Inputs *)

Point(x, y) == [ x |-> x, y |-> y ]

\* Canvas positions the control points are drawn from.
PointSet == { Point(0, 0), Point(100, 0), Point(100, 100) }

RECURSIVE SeqsUpTo(_, _)
SeqsUpTo(S, n) ==
    IF n = 0 THEN { << >> }
    ELSE LET shorter == SeqsUpTo(S, n - 1)
         IN shorter \cup { Append(q, e) : q \in shorter, e \in S }

\* machineSettings as declared (script.js:14-26); numeric values in
\* ten-thousandths, angleOffset in thousandths of a degree.
DefaultSettings ==
    [ unit |-> "mm",
      scaleFactor |-> [ num |-> 1, den |-> 10 ],
      safeHeight |-> 50000,
      cutDepth |-> -10000,
      feedRate |-> 3000000,
      rapidRate |-> 10000000,
      angleMode |-> "-180-180",
      angleOffset |-> 0,
      shortestPath |-> TRUE ]

\* Settings after updateSettings() read other values from the form.
OtherSettings ==
    [ unit |-> "inch",
      scaleFactor |-> [ num |-> 1, den |-> 2 ],
      safeHeight |-> 25004,
      cutDepth |-> -12346,
      feedRate |-> 1200000,
      rapidRate |-> 5000000,
      angleMode |-> "0-360",
      angleOffset |-> 90000,
      shortestPath |-> FALSE ]

\* A result variable before its function has been applied.
NotRun == [ by |-> "none", out |-> << >> ]

Result(by, out) == [ by |-> by, out |-> out ]

PipelineIdle ==
    /\ poly = NotRun
    /\ gcodeOutput = << >>
    /\ gcodeOutputOriented = << >>
    /\ downloaded = NotRun

HeadingIdle ==
    /\ prevAngle = << >>
    /\ emitted = << >>
    /\ emitCount = 0
    /\ rawAngle = << >>
    /\ once = << >>
    /\ twice = << >>
    /\ measured = NotRun

ParserIdle ==
    /\ text = << >>
    /\ parsed = NotRun
    /\ moves = NotRun
    /\ segments = << >>
    /\ totalLength = 0
    /\ located = NotRun

\* The page as loaded (script.js:3-7, 29-39): nothing selected, no
\* playback, no file being read.
AppIdle ==
    /\ oriented = NotRun
    /\ selectedPoint = << >>
    /\ isDragging = FALSE
    /\ deleteMode = FALSE
    /\ touchStartPos = << >>
    /\ gesture = << >>
    /\ playing = FALSE
    /\ speedPxPerSec = 200
    /\ currentDist = 0
    /\ lastTs = << >>
    /\ mode = "base"
    /\ gcodeLoaded = FALSE
    /\ frames = 0
    /\ reading = << >>
    /\ alerted = << >>

pipelineVars == << poly, gcodeOutput, gcodeOutputOriented, downloaded >>

pointerVars == << selectedPoint, isDragging, deleteMode, touchStartPos, gesture >>

playVars == << playing, speedPxPerSec, currentDist, lastTs, mode, gcodeLoaded,
               frames >>

appVars == << oriented, pointerVars, playVars, reading, alerted >>

headingVars ==
    << prevAngle, emitted, emitCount, rawAngle, once, twice, measured >>

previewVars == << segments, totalLength, located >>

inputVars == << points, curveResolution, machineSettings >>

-----------------------------------------------------------------------------
(* Generation pipeline: the sampler, the generators and the parsers applied *)
(* to one set of control points, one resolution and one group of settings.  *)

InitPipeline ==
    /\ points \in SeqsUpTo(PointSet, MaxPoints)
    /\ curveResolution \in 1..MaxRes
    /\ machineSettings \in { DefaultSettings, OtherSettings }
    /\ PipelineIdle
    /\ HeadingIdle
    /\ ParserIdle
    /\ AppIdle

\* generateGCodeString(): "const poly = samplePolylinePoints()", then the
\* lines; the text goes to #gcodeOutput.
GenerateBase ==
    /\ gcodeOutput = << >>
    /\ poly' = Result("samplePolylinePoints",
                      samplePolylinePoints(points, curveResolution))
    /\ gcodeOutput' = generateGCodeString(points, curveResolution, machineSettings)
    /\ UNCHANGED << appVars, inputVars, gcodeOutputOriented, downloaded,
                    headingVars, text, parsed, moves, previewVars >>

\* right.value = generateOrientedGCodeString() over an existing base program
OrientFromBase ==
    /\ gcodeOutput # << >>
    /\ gcodeOutputOriented = << >>
    /\ gcodeOutputOriented' =
           generateOrientedGCodeString(gcodeOutput, points, curveResolution,
                                       machineSettings)
    /\ UNCHANGED << appVars, inputVars, poly, gcodeOutput, downloaded,
                    headingVars, text, parsed, moves, previewVars >>

\* downloadOrientedGCode() while #gcodeOutput is empty: the text comes from
\* generateOrientedGCodeFromPoints()
OrientFromPoints ==
    /\ gcodeOutput = << >>
    /\ downloaded = NotRun
    /\ poly' = Result("samplePolylinePoints",
                      samplePolylinePoints(points, curveResolution))
    /\ downloaded' =
           Result("generateOrientedGCodeFromPoints",
                  generateOrientedGCodeString(gcodeOutput, points, curveResolution,
                                              machineSettings))
    /\ UNCHANGED << appVars, inputVars, gcodeOutput, gcodeOutputOriented,
                    headingVars, text, parsed, moves, previewVars >>

\* parseGCode(text) on the generated base program
ParseGenerated ==
    /\ gcodeOutput # << >>
    /\ parsed = NotRun
    /\ parsed' = Result("parseGCode", parseGCode(gcodeOutput, machineSettings))
    /\ UNCHANGED << appVars, inputVars, pipelineVars, headingVars, text, moves,
                    previewVars >>

\* buildPreviewFromGCode(gcode) on the generated base program
PreviewGenerated ==
    /\ gcodeOutput # << >>
    /\ moves = NotRun
    /\ moves' = Result("buildPreviewFromGCode",
                       buildPreviewFromGCode(gcodeOutput, machineSettings))
    /\ segments' = PreviewSegments(moves'.out)
    /\ totalLength' = PreviewTotalLength(segments')
    /\ located' = NotRun
    /\ UNCHANGED << appVars, inputVars, pipelineVars, headingVars, text, parsed >>

NextPipeline ==
    \/ GenerateBase
    \/ OrientFromBase
    \/ OrientFromPoints
    \/ ParseGenerated
    \/ PreviewGenerated

SpecPipeline == InitPipeline /\ [][NextPipeline]_vars

-----------------------------------------------------------------------------
(* Headings of one oriented generation: the chain "angle =                  *)
(* normalizeAngle(angle, prevAngle); prevAngle = angle" that both oriented  *)
(* generators run over the raw headings of their moves, and normalizeAngle  *)
(* applied to its own result.                                               *)

\* Raw headings angleDeg can return, in thousandths: eighths of a turn.
RawAngles == { 45000 * k : k \in 0..7 }

\* Angles handed to normalizeAngle directly: quarter turns over two
\* revolutions either way.
TwiceAngles == { 90000 * k : k \in -8..8 }

\* Settings of the orientation form: both ranges, offsets of nothing, a
\* quarter turn and a whole turn, shortest path on and off.
HeadingSettings ==
    { [ DefaultSettings EXCEPT !.angleMode = m, !.angleOffset = o,
                               !.shortestPath = s ] :
        m \in { "-180-180", "0-360" }, o \in { 0, 90000, 360000 },
        s \in BOOLEAN }

InitHeading ==
    /\ points = << >>
    /\ curveResolution = 1
    /\ machineSettings \in HeadingSettings
    /\ PipelineIdle
    /\ HeadingIdle
    /\ ParserIdle
    /\ AppIdle

\* One move of an oriented generation: its raw heading is normalised against
\* the heading emitted for the move before it (null for the first move).
EmitHeading(raw) ==
    /\ emitCount < MaxEmitted
    /\ LET angle == normalizeAngle(raw, prevAngle, machineSettings)
       IN /\ prevAngle' = << angle >>
          /\ emitted' = IF emitted = << >> THEN << angle >>
                        ELSE << emitted[Len(emitted)], angle >>
    /\ emitCount' = emitCount + 1
    /\ UNCHANGED << appVars, inputVars, pipelineVars, rawAngle, once, twice,
                    measured, text, parsed, moves, previewVars >>

\* normalizeAngle(a, null), and normalizeAngle of that result
NormalizeTwice(a) ==
    /\ rawAngle' = << a >>
    /\ once' = << normalizeAngle(a, << >>, machineSettings) >>
    /\ twice' = << normalizeAngle(normalizeAngle(a, << >>, machineSettings),
                                 << >>, machineSettings) >>
    /\ UNCHANGED << appVars, inputVars, pipelineVars, prevAngle, emitted, emitCount,
                    measured, text, parsed, moves, previewVars >>

NextHeading ==
    \/ \E raw \in RawAngles : EmitHeading(raw)
    \/ \E a \in TwiceAngles : NormalizeTwice(a)

SpecHeading == InitHeading /\ [][NextHeading]_vars

-----------------------------------------------------------------------------
(* Parsers over G-code text that is typed or imported line by line.         *)

\* Lines of a program: XY moves, a Z-only move, and the mode lines.
LineSet ==
    { Line(<< Word("G", 0), Word("X", 1000), Word("Y", 2000) >>, NoComment),
      Line(<< Word("G", 1), Word("X", 3000), Word("Y", -1500),
              Word("F", 300000) >>, NoComment),
      Line(<< Word("G", 1), Word("Z", -1000), Word("F", 300000) >>,
           Comment("Plunge to cut depth")),
      Line(<< Word("G", 90) >>, Comment("Absolute positioning")),
      Line(<< Word("G", 21) >>, Comment("Unit:")),
      Line(<< Word("G", 17) >>, Comment("XY plane")),
      Line(<< Word("F", 1000000) >>, Comment("Rapid feed rate")),
      Line(<< Word("M", 2) >>, Comment("Program end")) }

InitParser ==
    /\ points = << >>
    /\ curveResolution = 1
    /\ machineSettings \in { DefaultSettings, OtherSettings }
    /\ PipelineIdle
    /\ HeadingIdle
    /\ ParserIdle
    /\ AppIdle

\* One more line of text; results of the shorter text are dropped.
AppendLine(l) ==
    /\ Len(text) < MaxTextLines
    /\ text' = Append(text, l)
    /\ parsed' = NotRun
    /\ moves' = NotRun
    /\ segments' = << >>
    /\ totalLength' = 0
    /\ located' = NotRun
    /\ oriented' = NotRun
    /\ UNCHANGED << pointerVars, playVars, reading, alerted, inputVars,
                    pipelineVars, headingVars >>

\* parseGCode(text)
ParseText ==
    /\ text # << >>
    /\ parsed' = Result("parseGCode", parseGCode(text, machineSettings))
    /\ UNCHANGED << appVars, inputVars, pipelineVars, headingVars, text, moves,
                    previewVars >>

\* parseGCode(text), the file's second definition
ParseText2 ==
    /\ text # << >>
    /\ parsed' = Result("parseGCode2", parseGCode2(text, machineSettings))
    /\ UNCHANGED << appVars, inputVars, pipelineVars, headingVars, text, moves,
                    previewVars >>

\* buildPreviewFromGCode(text)
BuildPreviewText ==
    /\ text # << >>
    /\ moves' = Result("buildPreviewFromGCode",
                       buildPreviewFromGCode(text, machineSettings))
    /\ segments' = PreviewSegments(moves'.out)
    /\ totalLength' = PreviewTotalLength(segments')
    /\ located' = NotRun
    /\ UNCHANGED << appVars, inputVars, pipelineVars, headingVars, text, parsed >>

\* buildPreviewFromGCode(text), the file's second definition
BuildPreviewText2 ==
    /\ text # << >>
    /\ moves' = Result("buildPreviewFromGCode2",
                       buildPreviewFromGCode2(text, machineSettings))
    /\ segments' = PreviewSegments(moves'.out)
    /\ totalLength' = PreviewTotalLength(segments')
    /\ located' = NotRun
    /\ UNCHANGED << appVars, inputVars, pipelineVars, headingVars, text, parsed >>

NextParser ==
    \/ \E l \in LineSet : AppendLine(l)
    \/ ParseText
    \/ ParseText2
    \/ BuildPreviewText
    \/ BuildPreviewText2

SpecParser == InitParser /\ [][NextParser]_vars

-----------------------------------------------------------------------------
(* Parsers over texts whose lines leave fields out, hold letters without a  *)
(* number, or are comments.                                                 *)

ModalLineSet ==
    { Line(<< Word("G", 0), Word("X", 1000), Word("Y", 2000) >>, NoComment),
      Line(<< Word("G", 1), Word("X", 2000) >>, NoComment),
      Line(<< Word("G", 1), Word("Y", 500), Word("C", 90000) >>, NoComment),
      Line(<< Word("G", 1), Word("Z", -1000), Word("F", 300000) >>,
           Comment("Plunge to cut depth")),
      Line(<< Word("G", 1) >>, NoComment),
      Line(<< Word("G", 1), BadWord("X"), Word("Y", -1500) >>, NoComment),
      Line(<< Word("G", 1), Word("X", 3000), BadWord("Y"), BadWord("C") >>,
           NoComment),
      Line(<< >>, NoComment),
      Line(<< >>, Comment("note")),
      ParenLine,
      CutParenLine(<< Word("X", 1000), Word("Y", 2000) >>) }

NextModal ==
    \/ \E l \in ModalLineSet : AppendLine(l)
    \/ ParseText
    \/ ParseText2
    \/ BuildPreviewText
    \/ BuildPreviewText2

SpecModal == InitParser /\ [][NextModal]_vars

-----------------------------------------------------------------------------
\* The playback path: buildPreviewFromGCode on texts whose moves make
\* lengths of 3-4-5 triangles, coincident points and points closer than the
\* 1e-6 px of the segment loop, and distToPoint on the path built.

\* Settings after updateSettings() read a scale factor of 2000 units per
\* pixel: a thousandth of a unit is then half of 1e-6 px on the canvas.
FineSettings ==
    [ DefaultSettings EXCEPT !.scaleFactor = [ num |-> 2 * 1000, den |-> 1 ] ]

PathLineSet ==
    { Line(<< Word("G", 0), Word("X", 0), Word("Y", 0) >>, NoComment),
      Line(<< Word("G", 1), Word("X", 300), Word("Y", 400), Word("C", 53000) >>,
           NoComment),
      Line(<< Word("G", 1), Word("X", 300), Word("Y", 400), Word("C", -170000) >>,
           NoComment),
      Line(<< Word("G", 1), Word("X", 600), Word("C", 170000) >>, NoComment),
      Line(<< Word("G", 1), Word("X", 1) >>, NoComment),
      Line(<< Word("G", 1), Word("X", 4), Word("Y", 0) >>, NoComment),
      Line(<< Word("G", 1), Word("Z", -1000), Word("F", 300000) >>,
           Comment("Plunge to cut depth")) }

InitPreview ==
    /\ points = << >>
    /\ curveResolution = 1
    /\ machineSettings \in { DefaultSettings, OtherSettings, FineSettings }
    /\ PipelineIdle
    /\ HeadingIdle
    /\ ParserIdle
    /\ AppIdle

\* The distances asked of distToPoint: the start, the middle, a quarter
\* and the end of every segment, and one past the end of the path.
LocateSet ==
    { 0, totalLength + 1000 }
        \cup { segments[i].cumEnd : i \in 1..Len(segments) }
        \cup { segments[i].cumStart + segments[i].len \div 2 : i \in 1..Len(segments) }
        \cup { segments[i].cumStart + segments[i].len \div 4 : i \in 1..Len(segments) }

\* distToPoint(d)
Locate(d) ==
    /\ located' = [ by |-> "distToPoint", d |-> d, out |-> distToPoint(segments, d) ]
    /\ UNCHANGED << appVars, inputVars, pipelineVars, headingVars, text, parsed, moves,
                    segments, totalLength >>

NextPreview ==
    \/ \E l \in PathLineSet : AppendLine(l)
    \/ BuildPreviewText
    \/ BuildPreviewText2
    \/ \E d \in LocateSet : Locate(d)

SpecPreview == InitPreview /\ [][NextPreview]_vars

-----------------------------------------------------------------------------
\* The angle functions called directly: angleDeg, normalizeAngle and
\* getAngleDifference on angles in and out of every range, under every
\* angle mode, with and without shortestPath.

\* Angles in thousandths of a degree: the ends of the two ranges, their
\* neighbours, and angles more than one turn away.
AngleSet ==
    { -725500, -540000, -180001, -180000, -179999, -90000, -1, 0, 1, 90000,
      179999, 180000, 180001, 359999, 360000, 540000, 725500 }

\* prevAngle: null or an angle.
PrevSet == { << >> } \cup { << p >> : p \in AngleSet }

\* Components of a direction on the canvas, in pixels.
DeltaSet == { -4, -3, 0, 3, 4 }

AngleSettings ==
    { [ DefaultSettings EXCEPT !.angleMode = m, !.angleOffset = o,
                               !.shortestPath = s ] :
        m \in { "-180-180", "0-360" }, o \in { 0, 90000, -450500, 360000 },
        s \in BOOLEAN }

InitAngles ==
    /\ points = << >>
    /\ curveResolution = 1
    /\ machineSettings \in AngleSettings
    /\ PipelineIdle
    /\ HeadingIdle
    /\ ParserIdle
    /\ AppIdle

\* getAngleDifference(a, b)
MeasureDifference(a, b) ==
    /\ measured' = [ by |-> "getAngleDifference", a |-> a, b |-> b,
                     out |-> getAngleDifference(a, b) ]
    /\ UNCHANGED << appVars, inputVars, pipelineVars, prevAngle, emitted, emitCount,
                    rawAngle, once, twice, text, parsed, moves, previewVars >>

\* normalizeAngle(a, prev), and getAngleDifference(prev, that result) when
\* prev is an angle
MeasureNormalize(a, prev) ==
    /\ LET out == normalizeAngle(a, prev, machineSettings)
       IN measured' = [ by |-> "normalizeAngle", a |-> a, prev |-> prev,
                        out |-> out,
                        diff |-> IF prev = << >> THEN << >>
                                 ELSE << getAngleDifference(prev[1], out) >> ]
    /\ UNCHANGED << appVars, inputVars, pipelineVars, prevAngle, emitted, emitCount,
                    rawAngle, once, twice, text, parsed, moves, previewVars >>

\* angleDeg(dx, dyCanvas)
MeasureHeading(dx, dyCanvas) ==
    /\ measured' = [ by |-> "angleDeg", dx |-> dx, dyCanvas |-> dyCanvas,
                     out |-> angleDeg(dx, dyCanvas) ]
    /\ UNCHANGED << appVars, inputVars, pipelineVars, prevAngle, emitted, emitCount,
                    rawAngle, once, twice, text, parsed, moves, previewVars >>

NextAngles ==
    \/ \E a, b \in AngleSet : MeasureDifference(a, b)
    \/ \E a \in AngleSet, prev \in PrevSet : MeasureNormalize(a, prev)
    \/ \E dx, dyCanvas \in DeltaSet : MeasureHeading(dx, dyCanvas)

SpecAngles == InitAngles /\ [][NextAngles]_vars

-----------------------------------------------------------------------------
\* generateOrientedGCodeFromBase on texts of moves, mode lines, comments
\* and left-out fields.

OrientLineSet ==
    { Line(<< Word("G", 0), Word("X", 1000), Word("Y", 2000) >>, NoComment),
      Line(<< Word("G", 1), Word("X", 3000), Word("Y", -1500), Word("F", 300000) >>,
           NoComment),
      Line(<< Word("G", 1), Word("X", 2000), Word("C", 90000) >>, NoComment),
      Line(<< Word("G", 1), Word("Z", -1000), Word("F", 300000) >>,
           Comment("Plunge to cut depth")),
      Line(<< Word("G", 90) >>, Comment("Absolute positioning")),
      Line(<< Word("G", 1) >>, NoComment),
      Line(<< >>, NoComment),
      Line(<< >>, Comment("note")),
      ParenLine,
      ParenWordsLine(<< Word("X", 1000), Word("Y", 2000) >>),
      CutParenLine(<< Word("X", 1000), Word("Y", 2000) >>) }

\* generateOrientedGCodeFromBase(text)
OrientText ==
    /\ text # << >>
    /\ oriented' = Result("generateOrientedGCodeFromBase",
                          generateOrientedGCodeFromBase(text, machineSettings))
    /\ UNCHANGED << pointerVars, playVars, reading, alerted, inputVars,
                    pipelineVars, headingVars, text, parsed, moves, previewVars >>

NextOrient ==
    \/ \E l \in OrientLineSet : AppendLine(l)
    \/ OrientText

SpecOrient == InitParser /\ [][NextOrient]_vars

-----------------------------------------------------------------------------
(* The page: the editor canvas, the preview player and the file import.     *)
(* One action per event handler (script.js:68-168, 390-405, 451-453,        *)
(* 765-874, 922-937, 1177-1203, 1235-1262).                                 *)
(*                                                                          *)
(* selectedPoint holds the JavaScript index (from 0).  preview.currentDist  *)
(* and preview.totalLength are in the unit of the segments' len, a          *)
(* fraction of a pixel.  The clock is not a variable: lastTs = << 0 >> stands for *)
(* the time of the previous frame and the dt of a frame for the time since. *)
(* alerted is the alert() of the last handler that ran.  gesture is the     *)
(* browser's side of a pointer gesture: the button or finger that is down,  *)
(* where it is, whether it went down on a control point and whether it has *)
(* moved since; after a mouseup, the click the browser still owes.          *)

\* Animation frames that may be pending at once, files that may be read at
\* once.
MaxFrames == 2
MaxReading == 1

\* "const hitRadius = isMobile ? 20 : radius", radius = 8, on a wide window
hitRadius == 8

\* getPointAt(x, y): the first index within hitRadius, << >> for null
getPointAt(pts, pos) ==
    LET hits == { i \in 1..Len(pts) :
                      (pts[i].x - pos.x) * (pts[i].x - pos.x)
                      + (pts[i].y - pos.y) * (pts[i].y - pos.y)
                      < hitRadius * hitRadius }
    IN IF hits = {} THEN << >>
       ELSE << (CHOOSE i \in hits : \A k \in hits : i <= k) - 1 >>

\* points.splice(idx, 1)
Splice(pts, idx) == SubSeq(pts, 1, idx) \o SubSeq(pts, idx + 2, Len(pts))

\* Variant of rebuildPreviewPathPreserveProgress: the loaded flag is kept.
rebuildPreviewKeepLoaded ==
    /\ segments' = << >>
    /\ totalLength' = 0
    /\ currentDist' = 0
    /\ UNCHANGED gcodeLoaded

\* rebuildPreviewPathPreserveProgress()
rebuildPreviewPathPreserveProgress ==
    /\ segments' = << >>
    /\ totalLength' = 0
    /\ currentDist' = 0
    /\ gcodeLoaded' = FALSE

\* What buildPreviewFromGCode(gcodeText) leaves in preview.
LoadPreview(txt) ==
    /\ segments' = PreviewSegments(buildPreviewFromGCode(txt, machineSettings))
    /\ totalLength' = PreviewTotalLength(segments')
    /\ currentDist' = 0
    /\ gcodeLoaded' = TRUE

\* clampPreviewDist() applied to the distance d
clampPreviewDist(d, total) ==
    IF d < 0 THEN 0 ELSE IF d > total THEN total ELSE d

\* Variant of StepDist: the distance is not set back to the total length.
StepDistUnclamped(d, adv, total) == d + adv

\* "preview.currentDist += speed * dt; if (preview.currentDist >=
\* preview.totalLength) preview.currentDist = preview.totalLength" of step
StepDist(d, adv, total) == IF d + adv >= total THEN total ELSE d + adv

\* togglePlay(forceState), force = << >> for undefined: the value of
\* preview.playing it leaves, its alert, and whether it requested a frame.
togglePlay(force) ==
    LET want == IF force = << >> THEN ~playing ELSE force[1]
    IN IF ~gcodeLoaded
       THEN [ playing |-> playing, alert |-> << "Please generate G-code first" >>,
              requested |-> FALSE ]
       ELSE IF totalLength <= 0
       THEN [ playing |-> playing, alert |-> << "No path to preview" >>,
              requested |-> FALSE ]
       ELSE [ playing |-> want, alert |-> << >>, requested |-> want ]

\* What the page's handlers never write.
fixedVars == << machineSettings, poly, downloaded, parsed, moves, headingVars,
                text, located, oriented >>

loadedVars == << segments, totalLength, currentDist, gcodeLoaded >>

\* Where the pointer acts, resolutions of the slider, speeds of the speed
\* slider, positions of the progress slider (percent), milliseconds
\* between two frames.
PosSet == { Point(0, 0), Point(100, 0) }
ResSet == { 1, 2 }
SpeedSet == { 0, 200 }
SliderSet == { 0, 50, 100 }
DtSet == { 250, 400 }

\* Texts of the files imported: two moves, one move, no move.
ImportSet ==
    { << Line(<< Word("G", 0), Word("X", 0), Word("Y", 0) >>, NoComment),
         Line(<< Word("G", 1), Word("X", 10000), Word("Y", 0),
                 Word("F", 300000) >>, NoComment) >>,
      << Line(<< Word("G", 0), Word("X", 10000), Word("Y", 0) >>, NoComment) >>,
      << Line(<< Word("G", 90) >>, Comment("Absolute positioning")),
         Line(<< Word("M", 2) >>, Comment("Program end")) >> }

InitApp ==
    /\ points = << >>
    /\ curveResolution = 1
    /\ machineSettings = DefaultSettings
    /\ PipelineIdle
    /\ HeadingIdle
    /\ ParserIdle
    /\ AppIdle

\* The browser dispatches the click of a mouse gesture right after its
\* mouseup: while it is owed, no other handler of the user's runs.
ClickOwed == gesture # << >> /\ gesture[1].kind = "click"

\* mousedown on the canvas
MouseDown(pos) ==
    /\ gesture = << >>
    /\ gesture' = << [ kind |-> "mouse", at |-> pos,
                       picked |-> getPointAt(points, pos) # << >>,
                       moved |-> FALSE ] >>
    /\ selectedPoint' = getPointAt(points, pos)
    /\ isDragging' = (selectedPoint' # << >>)
    /\ alerted' = << >>
    /\ UNCHANGED << fixedVars, points, curveResolution, gcodeOutput,
                    gcodeOutputOriented, loadedVars, deleteMode,
                    touchStartPos, playing, speedPxPerSec, lastTs, mode,
                    frames, reading >>

\* mousemove with the button held.  "points[selectedPoint].x = x" on a
\* missing point raises a TypeError and the handler stops there.
MouseMove(pos) ==
    /\ gesture # << >> /\ gesture[1].kind = "mouse"
    /\ gesture' = << [ gesture[1] EXCEPT !.at = pos, !.moved = TRUE ] >>
    /\ alerted' = << >>
    /\ IF isDragging /\ selectedPoint # << >> /\ selectedPoint[1] < Len(points)
       THEN /\ points' = [ points EXCEPT ![selectedPoint[1] + 1] = pos ]
            /\ rebuildPreviewPathPreserveProgress
       ELSE UNCHANGED << points, loadedVars >>
    /\ UNCHANGED << fixedVars, curveResolution, gcodeOutput,
                    gcodeOutputOriented, selectedPoint, isDragging,
                    deleteMode, touchStartPos, playing, speedPxPerSec, lastTs,
                    mode, frames, reading >>

\* mouseup; the browser then owes the canvas a click at the same place
MouseUp ==
    /\ gesture # << >> /\ gesture[1].kind = "mouse"
    /\ gesture' = << [ gesture[1] EXCEPT !.kind = "click" ] >>
    /\ isDragging' = FALSE
    /\ selectedPoint' = << >>
    /\ alerted' = << >>
    /\ UNCHANGED << fixedVars, points, curveResolution, gcodeOutput,
                    gcodeOutputOriented, loadedVars, deleteMode,
                    touchStartPos, playing, speedPxPerSec, lastTs, mode,
                    frames, reading >>

\* click, delivered after the mouseup
Click ==
    /\ gesture # << >> /\ gesture[1].kind = "click"
    /\ gesture' = << >>
    /\ alerted' = << >>
    /\ LET pos == gesture[1].at
           idx == getPointAt(points, pos)
       IN IF isDragging THEN UNCHANGED << points, loadedVars >>
          ELSE IF deleteMode /\ idx # << >>
          THEN /\ points' = Splice(points, idx[1])
               /\ rebuildPreviewPathPreserveProgress
          ELSE IF idx = << >>
          THEN /\ Len(points) < MaxPoints
               /\ points' = Append(points, pos)
               /\ rebuildPreviewPathPreserveProgress
          ELSE UNCHANGED << points, loadedVars >>
    /\ UNCHANGED << fixedVars, curveResolution, gcodeOutput,
                    gcodeOutputOriented, selectedPoint, isDragging,
                    deleteMode, touchStartPos, playing, speedPxPerSec, lastTs,
                    mode, frames, reading >>

\* contextmenu (right click, or the menu key) at pos
ContextMenu(pos) ==
    /\ ~ClickOwed
    /\ alerted' = << >>
    /\ LET pointIndex == getPointAt(points, pos)
       IN IF pointIndex # << >>
          THEN /\ points' = Splice(points, pointIndex[1])
               /\ rebuildPreviewPathPreserveProgress
          ELSE UNCHANGED << points, loadedVars >>
    /\ UNCHANGED << fixedVars, curveResolution, gcodeOutput,
                    gcodeOutputOriented, pointerVars, playing, speedPxPerSec,
                    lastTs, mode, frames, reading >>

\* touchstart
TouchStart(pos) ==
    /\ gesture = << >>
    /\ gesture' = << [ kind |-> "touch", at |-> pos,
                       picked |-> getPointAt(points, pos) # << >>,
                       moved |-> FALSE ] >>
    /\ touchStartPos' = << pos >>
    /\ selectedPoint' = getPointAt(points, pos)
    /\ isDragging' = IF selectedPoint' # << >> THEN TRUE ELSE isDragging
    /\ alerted' = << >>
    /\ UNCHANGED << fixedVars, points, curveResolution, gcodeOutput,
                    gcodeOutputOriented, loadedVars, deleteMode, playing,
                    speedPxPerSec, lastTs, mode, frames, reading >>

\* touchmove
TouchMove(pos) ==
    /\ gesture # << >> /\ gesture[1].kind = "touch"
    /\ gesture' = << [ gesture[1] EXCEPT !.at = pos, !.moved = TRUE ] >>
    /\ alerted' = << >>
    /\ IF isDragging /\ selectedPoint # << >>
       THEN /\ touchStartPos' = << pos >>
            /\ IF selectedPoint[1] < Len(points)
               THEN /\ points' = [ points EXCEPT ![selectedPoint[1] + 1] = pos ]
                    /\ rebuildPreviewPathPreserveProgress
               ELSE UNCHANGED << points, loadedVars >>
       ELSE UNCHANGED << touchStartPos, points, loadedVars >>
    /\ UNCHANGED << fixedVars, curveResolution, gcodeOutput,
                    gcodeOutputOriented, selectedPoint, isDragging,
                    deleteMode, playing, speedPxPerSec, lastTs, mode, frames,
                    reading >>

\* touchend
TouchEnd ==
    /\ gesture # << >> /\ gesture[1].kind = "touch"
    /\ gesture' = << >>
    /\ alerted' = << >>
    /\ IF ~isDragging /\ touchStartPos # << >>
       THEN LET pos == touchStartPos[1]
                idx == getPointAt(points, pos)
            IN IF deleteMode /\ idx # << >>
               THEN /\ points' = Splice(points, idx[1])
                    /\ rebuildPreviewPathPreserveProgress
               ELSE IF idx = << >>
               THEN /\ Len(points) < MaxPoints
                    /\ points' = Append(points, pos)
                    /\ rebuildPreviewPathPreserveProgress
               ELSE UNCHANGED << points, loadedVars >>
       ELSE UNCHANGED << points, loadedVars >>
    /\ isDragging' = FALSE
    /\ selectedPoint' = << >>
    /\ touchStartPos' = << >>
    /\ UNCHANGED << fixedVars, curveResolution, gcodeOutput,
                    gcodeOutputOriented, deleteMode, playing, speedPxPerSec,
                    lastTs, mode, frames, reading >>

\* clearAll()
ClearAll ==
    /\ ~ClickOwed
    /\ points' = << >>
    /\ rebuildPreviewPathPreserveProgress
    /\ alerted' = << >>
    /\ UNCHANGED << fixedVars, curveResolution, gcodeOutput,
                    gcodeOutputOriented, pointerVars, playing, speedPxPerSec,
                    lastTs, mode, frames, reading >>

\* updateResolution(value)
UpdateResolution(value) ==
    /\ ~ClickOwed
    /\ curveResolution' = value
    /\ rebuildPreviewPathPreserveProgress
    /\ alerted' = << >>
    /\ UNCHANGED << fixedVars, points, gcodeOutput, gcodeOutputOriented,
                    pointerVars, playing, speedPxPerSec, lastTs, mode, frames,
                    reading >>

\* setDeleteMode(checked)
SetDeleteMode(checked) ==
    /\ ~ClickOwed
    /\ deleteMode' = checked
    /\ alerted' = << >>
    /\ UNCHANGED << fixedVars, points, curveResolution, gcodeOutput,
                    gcodeOutputOriented, loadedVars, selectedPoint,
                    isDragging, touchStartPos, gesture, playing,
                    speedPxPerSec, lastTs, mode, frames, reading >>

\* generateGCodePreview()
GenerateGCodePreview ==
    /\ ~ClickOwed
    /\ gcodeOutput' = generateGCodeString(points, curveResolution, machineSettings)
    /\ LoadPreview(gcodeOutput')
    /\ mode' = "base"
    /\ alerted' = << >>
    /\ UNCHANGED << fixedVars, points, curveResolution, gcodeOutputOriented,
                    pointerVars, playing, speedPxPerSec, lastTs, frames,
                    reading >>

\* generateOrientedGCodePreview(): the base program is generated only when
\* #gcodeOutput is blank.
GenerateOrientedGCodePreview ==
    /\ gcodeOutput' =
           IF IsBlankText(gcodeOutput)
           THEN generateGCodeString(points, curveResolution, machineSettings)
           ELSE gcodeOutput
    /\ gcodeOutputOriented' =
           generateOrientedGCodeString(gcodeOutput', points, curveResolution,
                                       machineSettings)
    /\ LoadPreview(gcodeOutputOriented')
    /\ mode' = "oriented"
    /\ alerted' = << >>
    /\ UNCHANGED << fixedVars, points, curveResolution, pointerVars, playing,
                    speedPxPerSec, lastTs, frames, reading >>

\* setPreviewMode(mode)
SetPreviewMode(m) ==
    /\ IF ~gcodeLoaded
       THEN /\ alerted' = << "Please generate G-code first." >>
            /\ UNCHANGED << mode, loadedVars >>
       ELSE /\ alerted' = << >>
            /\ mode' = m
            /\ LET shown == IF m = "base" THEN gcodeOutput ELSE gcodeOutputOriented
               IN IF shown # << >> THEN LoadPreview(shown)
                  ELSE UNCHANGED loadedVars
    /\ UNCHANGED << fixedVars, points, curveResolution, gcodeOutput,
                    gcodeOutputOriented, pointerVars, playing, speedPxPerSec,
                    lastTs, frames, reading >>

\* togglePlay() from the play/pause button
TogglePlay ==
    LET done == togglePlay(<< >>)
    IN /\ done.requested => frames < MaxFrames
       /\ playing' = done.playing
       /\ alerted' = done.alert
       /\ lastTs' = IF done.requested THEN << >> ELSE lastTs
       /\ frames' = IF done.requested THEN frames + 1 ELSE frames
       /\ UNCHANGED << fixedVars, points, curveResolution, gcodeOutput,
                       gcodeOutputOriented, loadedVars, pointerVars,
                       speedPxPerSec, mode, reading >>

\* step(ts): a requested animation frame is delivered dt milliseconds after
\* the one before.  Lengths are in units of 1/(1000 * scaleFactor.num) pixel,
\* the denominator of the positions buildPreviewFromGCode computes, so that
\* speed * dt / 1000 pixels are speed * dt * scaleFactor.num units.
Step(dt) ==
    /\ frames > 0
    /\ IF ~playing
       THEN /\ frames' = frames - 1
            /\ alerted' = << >>
            /\ UNCHANGED << playing, currentDist, lastTs >>
       ELSE LET adv == IF lastTs = << >> THEN 0
                       ELSE speedPxPerSec * dt * machineSettings.scaleFactor.num
                done == togglePlay(<< FALSE >>)
            IN /\ lastTs' = << 0 >>
               /\ currentDist' = StepDist(currentDist, adv, totalLength)
               /\ IF currentDist + adv >= totalLength
                  THEN /\ playing' = done.playing
                       /\ alerted' = done.alert
                       /\ frames' = frames - 1
                  ELSE /\ alerted' = << >>
                       /\ UNCHANGED << playing, frames >>
    /\ UNCHANGED << fixedVars, points, curveResolution, gcodeOutput,
                    gcodeOutputOriented, segments, totalLength, gcodeLoaded,
                    pointerVars, speedPxPerSec, mode, reading >>

\* resetPreview()
ResetPreview ==
    LET done == togglePlay(<< FALSE >>)
    IN /\ currentDist' = 0
       /\ lastTs' = << >>
       /\ playing' = done.playing
       /\ alerted' = done.alert
       /\ UNCHANGED << fixedVars, points, curveResolution, gcodeOutput,
                       gcodeOutputOriented, segments, totalLength,
                       gcodeLoaded, pointerVars, speedPxPerSec, mode, frames,
                       reading >>

\* updatePreviewSpeed(v)
UpdatePreviewSpeed(v) ==
    /\ speedPxPerSec' = v
    /\ alerted' = << >>
    /\ UNCHANGED << fixedVars, points, curveResolution, gcodeOutput,
                    gcodeOutputOriented, loadedVars, pointerVars, playing,
                    lastTs, mode, frames, reading >>

\* The 'input' handler of #previewProgress with the slider at v percent
ScrubProgress(v) ==
    /\ currentDist' = clampPreviewDist((totalLength * v) \div 100, totalLength)
    /\ alerted' = << >>
    /\ UNCHANGED << fixedVars, points, curveResolution, gcodeOutput,
                    gcodeOutputOriented, segments, totalLength, gcodeLoaded,
                    pointerVars, playing, speedPxPerSec, lastTs, mode, frames,
                    reading >>

\* The 'change' handler of #gcodeFileInput: reader.readAsText(file)
ImportFile(txt) ==
    /\ Len(reading) < MaxReading
    /\ reading' = Append(reading, txt)
    /\ alerted' = << >>
    /\ UNCHANGED << fixedVars, points, curveResolution, gcodeOutput,
                    gcodeOutputOriented, loadedVars, pointerVars, playing,
                    speedPxPerSec, lastTs, mode, frames >>

\* Variant of ImportAccepts: the parsed list is taken whatever its length.
ImportAcceptsAll(samples) == TRUE

\* "parsed.length > 0" of reader.onload
ImportAccepts(samples) == Len(samples) > 0

\* reader.onload.  "points = parsed": the samples become the control
\* points; the texts of ImportSet give whole pixels.
ReaderOnload ==
    /\ reading # << >>
    /\ reading' = Tail(reading)
    /\ LET samples == parseGCode(Head(reading), machineSettings)
       IN IF ImportAccepts(samples)
          THEN /\ points' = [ i \in 1..Len(samples) |->
                                 Point(samples[i].x \div samples[i].den,
                                       samples[i].y \div samples[i].den) ]
               /\ gcodeOutput' = generateGCodeString(points', curveResolution,
                                                     machineSettings)
               /\ LoadPreview(gcodeOutput')
               /\ mode' = "base"
               /\ alerted' = << >>
          ELSE /\ alerted' = << "No XY moves found in the selected G-code." >>
               /\ UNCHANGED << points, gcodeOutput, loadedVars, mode >>
    /\ UNCHANGED << fixedVars, curveResolution, gcodeOutputOriented,
                    pointerVars, playing, speedPxPerSec, lastTs, frames >>

\* The handlers that change the control points or the resolution.
Edit ==
    \/ \E pos \in PosSet : MouseMove(pos)
    \/ Click
    \/ \E pos \in PosSet : ContextMenu(pos)
    \/ \E pos \in PosSet : TouchMove(pos)
    \/ TouchEnd
    \/ ClearAll
    \/ \E value \in ResSet : UpdateResolution(value)

\* The editor: pointer gestures, the toolbar and Generate.
NextEditor ==
    \/ \E pos \in PosSet : MouseDown(pos)
    \/ MouseUp
    \/ \E pos \in PosSet : TouchStart(pos)
    \/ Edit
    \/ \E checked \in BOOLEAN : SetDeleteMode(checked)
    \/ GenerateGCodePreview

SpecEditor == InitApp /\ [][NextEditor]_vars

\* The two programs and the preview built from them, between edits made
\* without a drag.
NextTexts ==
    \/ \E txt \in ImportSet : ImportFile(txt)
    \/ ReaderOnload
    \/ \E pos \in PosSet : ContextMenu(pos)
    \/ ClearAll
    \/ \E value \in ResSet : UpdateResolution(value)
    \/ GenerateGCodePreview
    \/ GenerateOrientedGCodePreview
    \/ \E m \in { "base", "oriented" } : SetPreviewMode(m)

SpecTexts == InitApp /\ [][NextTexts]_vars

\* The player over a program made from an imported file, between edits made
\* without a drag.
NextPlayer ==
    \/ \E txt \in ImportSet : ImportFile(txt)
    \/ ReaderOnload
    \/ ClearAll
    \/ \E value \in ResSet : UpdateResolution(value)
    \/ GenerateGCodePreview
    \/ TogglePlay
    \/ \E dt \in DtSet : Step(dt)
    \/ ResetPreview
    \/ \E v \in SpeedSet : UpdatePreviewSpeed(v)
    \/ \E v \in SliderSet : ScrubProgress(v)

SpecPlayer == InitApp /\ [][NextPlayer]_vars

\* Playback is running: playing, at a positive speed, with a frame requested.
Started == playing /\ speedPxPerSec > 0 /\ frames > 0

\* The player left to run: while playback is running the player's own
\* controls, Generate and the import wait, and the editor's do not.
NextPlayback ==
    \/ \E dt \in DtSet : Step(dt)
    \/ ClearAll
    \/ \E value \in ResSet : UpdateResolution(value)
    \/ /\ ~Started
       /\ \/ \E txt \in ImportSet : ImportFile(txt)
          \/ ReaderOnload
          \/ GenerateGCodePreview
          \/ TogglePlay
          \/ ResetPreview
          \/ \E v \in SpeedSet : UpdatePreviewSpeed(v)
          \/ \E v \in SliderSet : ScrubProgress(v)

\* requestAnimationFrame: a requested frame is delivered.
FairPlayback ==
    InitApp /\ [][NextPlayback]_vars /\ WF_vars(\E dt \in DtSet : Step(dt))

-----------------------------------------------------------------------------
(* Properties *)

\* The lines of a text that hold at least one word.
CommandLines(txt) == SelectSeq(txt, LAMBDA l : l.words # << >>)

\* The lines of a text that hold a G or an M word.
CodeLines(txt) ==
    SelectSeq(txt, LAMBDA l : HasLetter(l.words, "G") \/ HasLetter(l.words, "M"))

\* The lines of a text that hold both an X and a Y word.
XYLines(txt) ==
    SelectSeq(txt, LAMBDA l : HasLetter(l.words, "X") /\ HasLetter(l.words, "Y"))

\* A number v of a text (thousandths) is within 0.0005 of num/den.
Near(v, num, den) == 2 * Abs(v * den - 1000 * num) <= den

\* A number v of a text (thousandths) is within 0.0005 of the setting s.
NearSetting(v, s) ==
    2 * Abs(v * (SettingDen \div 1000) - s) <= SettingDen \div 1000

\* The words of a line are exactly the letters ls, in this order.
Letters(l, ls) ==
    /\ Len(l.words) = Len(ls)
    /\ \A i \in 1..Len(ls) : l.words[i].l = ls[i] /\ l.words[i].ok

\* C1.  Round trip: parseGCode applied to the text generateGCodeString made
\* returns as many samples as the polyline has, in the same order, and each
\* coordinate, taken back to program units, is within 0.0005 of the
\* polyline's.
C1_RoundTrip ==
    (parsed.by = "parseGCode" /\ poly.by = "samplePolylinePoints") =>
        LET sf == machineSettings.scaleFactor
            den == Den(curveResolution) * sf.den
        IN /\ Len(parsed.out) = Len(poly.out)
           /\ \A i \in 1..Len(poly.out) :
                LET q == parsed.out[i]
                    o == poly.out[i]
                    tol == (q.den * den) \div 2000
                IN /\ Abs(q.x * sf.num * den - o.x * sf.num * q.den) <= tol
                   /\ Abs(q.y * sf.num * den - o.y * sf.num * q.den) <= tol

\* C2.  Oriented-generation equivalence: the program made from the base
\* text and the program made from the points have, command line by command
\* line, a C word on the same lines and the same value in it.
C2_OrientedRoutesAgree ==
    (gcodeOutputOriented # << >>
     /\ downloaded.by = "generateOrientedGCodeFromPoints") =>
        LET a == CommandLines(gcodeOutputOriented)
            b == CommandLines(downloaded.out)
        IN /\ Len(a) = Len(b)
           /\ \A k \in 1..Len(a) : Match(a[k].words, "C") = Match(b[k].words, "C")

\* C3.  Shortest-path continuity: with shortestPath on, a heading emitted
\* after another differs from it by at most 180 degrees.
C3_ShortestPathContinuity ==
    (machineSettings.shortestPath /\ Len(emitted) = 2) =>
        Abs(emitted[2] - emitted[1]) <= 180000

SamplePos(e) == IF "p" \in DOMAIN e THEN e.p ELSE e

\* The last sample of a result is X / scaleFactor, -Y / scaleFactor for
\* the X and Y of the last line of the text.
InvertsLastLine(res) ==
    LET w == text[Len(text)].words
        sf == machineSettings.scaleFactor
    IN (res.by # "none" /\ Match(w, "X") # << >> /\ Match(w, "Y") # << >>) =>
          /\ res.out # << >>
          /\ LET s == SamplePos(res.out[Len(res.out)])
             IN /\ s.x * 1000 * sf.num = Match(w, "X")[1] * sf.den * s.den
                /\ s.y * 1000 * sf.num = -Match(w, "Y")[1] * sf.den * s.den

\* C5.  Every conversion from program to canvas coordinates, of parseGCode
\* and of every definition of buildPreviewFromGCode, is the inverse of the
\* generator's: x = X / scaleFactor and y = -Y / scaleFactor.
C5_ParseInvertsGenerator ==
    text # << >> => (InvertsLastLine(parsed) /\ InvertsLastLine(moves))

\* C6.  Sampler endpoints: with at least one control point the first
\* sample is the first control point and the last sample is the last
\* control point, exactly.
C6_EndpointsExact ==
    (poly.by = "samplePolylinePoints" /\ Len(points) >= 1) =>
        LET d == Den(curveResolution)
            first == poly.out[1]
            last == poly.out[Len(poly.out)]
            pn == points[Len(points)]
        IN /\ poly.out # << >>
           /\ first.x = points[1].x * d /\ first.y = points[1].y * d
           /\ first.fp # "off"
           /\ last.x = pn.x * d /\ last.y = pn.y * d
           /\ last.fp # "off"

\* C7.  Sampler size and joints: no sample for no control point, the point
\* itself for one, 1 + (n-1)*r samples for n >= 2, and every control point
\* between the first and the last sits at one place of the polyline, the
\* end of its piece, which is not sampled again by the next piece.  (The
\* sweep ends: the value below is the whole result of the call.)
C7_SizeAndJoints ==
    poly.by = "samplePolylinePoints" =>
        LET n == Len(points)
            r == curveResolution
        IN /\ n = 0 => poly.out = << >>
           /\ n = 1 => /\ Len(poly.out) = 1
                       /\ poly.out[1].x = points[1].x * Den(r)
                       /\ poly.out[1].y = points[1].y * Den(r)
           /\ n >= 2 => /\ Len(poly.out) = 1 + (n - 1) * r
                        /\ \A i \in 2..(n - 1) :
                              /\ poly.out[1 + (i - 1) * r].x = points[i].x * Den(r)
                              /\ poly.out[1 + (i - 1) * r].y = points[i].y * Den(r)

\* Three control points at resolution 2: five samples, the third of them on
\* the middle control point.
C7_Witness ==
    /\ poly.by = "samplePolylinePoints"
    /\ points = << Point(0, 0), Point(100, 0), Point(100, 100) >>
    /\ curveResolution = 2
    /\ Len(poly.out) = 5
    /\ poly.out[3].x = 100 * Den(2)
    /\ poly.out[3].y = 0

\* The raw direction the rule gives sample i of a polyline: the segment
\* into it, for the first sample the segment out of it, 0 when alone.
RuleDirection(pl, i) ==
    IF i > 1 THEN angleDeg(pl[i].x - pl[i - 1].x, pl[i].y - pl[i - 1].y)
    ELSE IF Len(pl) > 1 THEN angleDeg(pl[2].x - pl[1].x, pl[2].y - pl[1].y)
    ELSE 0

\* The headings the rule gives a polyline, each normalised against the one
\* before it.
RuleHeadings(pl, ms) ==
    LET RECURSIVE H(_)
        H(i) == normalizeAngle(RuleDirection(pl, i),
                               IF i = 1 THEN << >> ELSE << H(i - 1) >>, ms)
    IN [ i \in 1..Len(pl) |-> << formatNum(H(i), 1000) >> ]

\* The C fields of the XY moves of a text, in order.
XYHeadings(txt) ==
    LET xy == XYLines(txt)
    IN [ i \in 1..Len(xy) |-> Match(xy[i].words, "C") ]

\* C8.  Heading assignment: in an oriented program of either route the
\* heading of the move to sample i is the normalised direction of the
\* segment into sample i, that of the first move the direction of the first
\* segment, and normalize(0) for a lone sample.
C8_HeadingRule ==
    /\ downloaded.by = "generateOrientedGCodeFromPoints" =>
          XYHeadings(downloaded.out) = RuleHeadings(poly.out, machineSettings)
    /\ gcodeOutputOriented # << >> =>
          XYHeadings(gcodeOutputOriented) = RuleHeadings(poly.out, machineSettings)

\* The line is "G<g> Z<setting z>", with "F<setting f>" after it when f is
\* given.
IsZMove(l, g, z, f) ==
    /\ Letters(l, IF f = << >> THEN << "G", "Z" >> ELSE << "G", "Z", "F" >>)
    /\ l.words[1].v = g
    /\ NearSetting(l.words[2].v, z)
    /\ f # << >> => NearSetting(l.words[3].v, f[1])

\* The line is "G<g> X.. Y.." at sample p, with "F<setting f>" after it when
\* f is given.
IsXYMove(l, g, p, f) ==
    LET sf == machineSettings.scaleFactor
        den == Den(curveResolution) * sf.den
    IN /\ Letters(l, IF f = << >> THEN << "G", "X", "Y" >>
                     ELSE << "G", "X", "Y", "F" >>)
       /\ l.words[1].v = g
       /\ Near(l.words[2].v, p.x * sf.num, den)
       /\ Near(l.words[3].v, -p.y * sf.num, den)
       /\ f # << >> => NearSetting(l.words[4].v, f[1])

\* The line is the one word <letter><code>.
IsCode(l, letter, code) == Letters(l, << letter >>) /\ l.words[1].v = code

\* C9.  Positional program order: G90, the unit line (G20 for inch, else
\* G21), G17; then, for k > 0 samples, G0 to Z safeHeight, G0 to the first
\* sample, G1 to Z cutDepth at feedRate, one G1 at feedRate to each of the
\* k-1 other samples in order, G0 to Z safeHeight; then M2, the last line.
\* Without samples no line is a G0 or G1.
C9_ProgramOrder ==
    (gcodeOutput # << >> /\ poly.by = "samplePolylinePoints") =>
        LET c == CodeLines(gcodeOutput)
            k == Len(poly.out)
            ms == machineSettings
        IN /\ Len(c) = IF k = 0 THEN 4 ELSE k + 7
           /\ IsCode(c[1], "G", 90)
           /\ IsCode(c[2], "G", IF ms.unit = "inch" THEN 20 ELSE 21)
           /\ IsCode(c[3], "G", 17)
           /\ k > 0 =>
                /\ IsZMove(c[4], 0, ms.safeHeight, << >>)
                /\ IsXYMove(c[5], 0, poly.out[1], << >>)
                /\ IsZMove(c[6], 1, ms.cutDepth, << ms.feedRate >>)
                /\ \A i \in 2..k :
                      IsXYMove(c[5 + i], 1, poly.out[i], << ms.feedRate >>)
                /\ IsZMove(c[k + 6], 0, ms.safeHeight, << >>)
           /\ IsCode(c[Len(c)], "M", 2)
           /\ gcodeOutput[Len(gcodeOutput)] = c[Len(c)]
           /\ \A i \in 1..Len(gcodeOutput) :
                 (~HasLetter(gcodeOutput[i].words, "G")
                  /\ ~HasLetter(gcodeOutput[i].words, "M"))
                 => (~HasLetter(gcodeOutput[i].words, "X")
                     /\ ~HasLetter(gcodeOutput[i].words, "Y")
                     /\ ~HasLetter(gcodeOutput[i].words, "Z"))

\* A base program in inches for a polyline of five samples: twelve lines
\* with a G or M word.
C9_Witness ==
    /\ gcodeOutput # << >>
    /\ poly.by = "samplePolylinePoints"
    /\ Len(poly.out) = 5
    /\ Len(CodeLines(gcodeOutput)) = 12
    /\ machineSettings.unit = "inch"

\* A line that holds a G0 or G1 word, or an X or a Y.
IsMotionLine(l) ==
    \/ \E i \in 1..Len(l.words) :
          l.words[i].l = "G" /\ l.words[i].ok /\ l.words[i].v \in { 0, 1 }
    \/ HasLetter(l.words, "X")
    \/ HasLetter(l.words, "Y")

\* C10.  Motion-line filter: a parser's result holds no more samples than
\* the text has motion lines (every sample comes from a motion line of its
\* own; a mode line adds none).
C10_OnlyMotionLinesAddSamples ==
    LET motion == Len(SelectSeq(text, IsMotionLine))
    IN /\ parsed.by # "none" => Len(parsed.out) <= motion
       /\ moves.by # "none" => Len(moves.out) <= motion

\* The first number that follows the letter in what the parsers keep of a
\* line; << >> when there is none.
FieldOf(l, letter) ==
    LET w == StripComments(l)
        hits == { i \in 1..Len(w) : w[i].l = letter /\ w[i].ok }
    IN IF hits = {} THEN << >>
       ELSE << w[CHOOSE i \in hits : \A k \in hits : i <= k].v >>

\* The value of a field after line i of a text: the most recent number
\* given for it; << >> before the first.
RunningAt(txt, i, letter) ==
    LET seen == { j \in 1..i : FieldOf(txt[j], letter) # << >> }
    IN IF seen = {} THEN << >>
       ELSE FieldOf(txt[CHOOSE j \in seen : \A k \in seen : k <= j], letter)

\* A motion line as the claims word it: a G0 or G1 word, or an X or a Y.
IsMotionRemainder(l) ==
    LET w == StripComments(l)
    IN \/ \E i \in 1..Len(w) : w[i].l = "G" /\ w[i].ok /\ w[i].v \in { 0, 1 }
       \/ HasLetter(w, "X")
       \/ HasLetter(w, "Y")

\* The sample the parser named by makes of an X, a Y and a C (each << v >>,
\* the C possibly << >>): the position in canvas coordinates as that parser
\* converts it, with the C for a move of buildPreviewFromGCode.
SampleOf(by, x, y, c, ms) ==
    IF by = "parseGCode" THEN ParseConvert(x[1], y[1], ms, 1)
    ELSE IF by = "parseGCode2" THEN ParseConvert(x[1], y[1], ms, 2)
    ELSE [ p |-> PreviewConvert(x[1], y[1], ms,
                                IF by = "buildPreviewFromGCode" THEN 1 ELSE 2),
           c |-> c ]

\* The sample for line i: the one of the running X, Y and C.
SampleAt(txt, i, by, ms) ==
    SampleOf(by, RunningAt(txt, i, "X"), RunningAt(txt, i, "Y"),
             RunningAt(txt, i, "C"), ms)

\* What the parser named by returns for a text.
ParserOut(by, txt, ms) ==
    IF by = "parseGCode" THEN parseGCode(txt, ms)
    ELSE IF by = "parseGCode2" THEN parseGCode2(txt, ms)
    ELSE IF by = "buildPreviewFromGCode" THEN buildPreviewFromGCode(txt, ms)
    ELSE buildPreviewFromGCode2(txt, ms)

\* The text without its last line.
Front(txt) == SubSeq(txt, 1, Len(txt) - 1)

\* A result is modal in the last line of its text: nothing when X or Y has
\* had no value yet, and when the last line is a motion line with both
\* values known, the result of the lines before it followed by one sample
\* made of the running values.
ModalInLastLine(res) ==
    LET n == Len(text)
    IN /\ (RunningAt(text, n, "X") = << >> \/ RunningAt(text, n, "Y") = << >>)
             => res.out = << >>
       /\ ( /\ IsMotionRemainder(text[n])
            /\ RunningAt(text, n, "X") # << >>
            /\ RunningAt(text, n, "Y") # << >> )
             => res.out = Append(ParserOut(res.by, Front(text), machineSettings),
                                 SampleAt(text, n, res.by, machineSettings))

\* C11.  Modal parsing: X, Y (and C for buildPreviewFromGCode) are running
\* values over the whole text; a motion line (a G0/G1 word, or an X or a Y)
\* that leaves a field out gives a sample made of the most recent earlier
\* value of that field, and there is no sample before an X and a Y have
\* both been given.  Every text being reachable, the statement for the last
\* line of the text is the statement for every line.
C11_ModalParsing ==
    /\ parsed.by # "none" => ModalInLastLine(parsed)
    /\ moves.by # "none" => ModalInLastLine(moves)

\* The letter is on the line with no number the parsers can read after it.
BadField(l, letter) ==
    /\ HasLetter(StripComments(l), letter)
    /\ FieldOf(l, letter) = << >>

\* The value of a field after the last line of the text when an unreadable
\* field keeps the value of the lines before and a readable one is applied.
RecoveredField(letter) ==
    LET n == Len(text)
    IN IF BadField(text[n], letter) THEN RunningAt(text, n - 1, letter)
       ELSE IF FieldOf(text[n], letter) # << >> THEN FieldOf(text[n], letter)
       ELSE RunningAt(text, n - 1, letter)

\* A result recovers from an unreadable X, Y or C on the last line: the
\* parser has returned it, and it is the result of the lines before
\* followed by the sample of the recovered fields, or that result alone
\* while X or Y still has no value.
RecoversInLastLine(res) ==
    LET n == Len(text)
        x == RecoveredField("X")
        y == RecoveredField("Y")
        c == RecoveredField("C")
        before == ParserOut(res.by, Front(text), machineSettings)
    IN (\E letter \in { "X", "Y", "C" } : BadField(text[n], letter))
          => IF x = << >> \/ y = << >>
                THEN res.out = before /\ before = << >>
                ELSE res.out = Append(before,
                                      SampleOf(res.by, x, y, c, machineSettings))

\* C12.  Malformed token recovery: when the X, Y or C letter of a motion
\* line is not followed by a number the parser can read, the parser still
\* returns, the field keeps the running value it had before the line, and
\* the other fields of the line are applied.
C12_MalformedTokenRecovery ==
    /\ parsed.by # "none" => RecoversInLastLine(parsed)
    /\ moves.by # "none" => RecoversInLastLine(moves)

\* "G1 X2.000", "G1 Y0.500 C90.000", then a line with X3.000 and an
\* unreadable Y and C: the move of the last line is at X 3, Y 0.5 with
\* heading 90.
C12_Witness ==
    /\ moves.by = "buildPreviewFromGCode"
    /\ Len(text) = 3
    /\ BadField(text[3], "Y") /\ BadField(text[3], "C")
    /\ FieldOf(text[3], "X") = << 3000 >>
    /\ RunningAt(text, 2, "X") = << 2000 >>
    /\ RunningAt(text, 2, "Y") = << 500 >>
    /\ RunningAt(text, 2, "C") = << 90000 >>
    /\ Len(moves.out) = 2
    /\ moves.out[2] = SampleOf("buildPreviewFromGCode", << 3000 >>, << 500 >>,
                               << 90000 >>, machineSettings)
    /\ moves.out[2] # moves.out[1]

\* The sum of the lengths of the segments, in path order.
SumLen(segs) ==
    LET RECURSIVE Go(_)
        Go(i) == IF i > Len(segs) THEN 0 ELSE segs[i].len + Go(i + 1)
    IN Go(1)

\* C13.  Segment partition: the first segment starts at distance 0, every
\* segment ends at its start plus its length, every segment starts where
\* the one before ends, and totalLength is the sum of the lengths, which
\* is the end of the last segment (0 when there is none).
C13_SegmentPartition ==
    /\ segments # << >> => segments[1].cumStart = 0
    /\ \A i \in 1..Len(segments) :
          segments[i].cumEnd = segments[i].cumStart + segments[i].len
    /\ \A i \in 1..(Len(segments) - 1) :
          segments[i + 1].cumStart = segments[i].cumEnd
    /\ totalLength = SumLen(segments)
    /\ totalLength = IF segments = << >> THEN 0
                     ELSE segments[Len(segments)].cumEnd

\* A path of two segments of different lengths has been built.
C13_Witness ==
    /\ moves.by = "buildPreviewFromGCode"
    /\ Len(segments) = 2
    /\ segments[1].len # segments[2].len
    /\ segments[2].cumStart > 0

\* Every move of the last buildPreviewFromGCode is at the same point.
AllCoincident ==
    \A i, j \in 1..Len(moves.out) : moves.out[i].p = moves.out[j].p

\* C14.  No degenerate segment: every stored segment is longer than 1e-6
\* pixel (len over den above 1 over TinyInv), so that cumEnd increases
\* strictly along the path, and moves that are all at one point give no
\* segment and a totalLength of 0.
C14_NoDegenerateSegment ==
    /\ \A i \in 1..Len(segments) :
          segments[i].len > segments[i].den \div TinyInv
    /\ \A i \in 1..(Len(segments) - 1) :
          segments[i].cumEnd < segments[i + 1].cumEnd
    /\ (moves.by # "none" /\ AllCoincident)
          => segments = << >> /\ totalLength = 0

\* Three moves at one point, and no segment.
C14_Witness ==
    /\ moves.by = "buildPreviewFromGCode"
    /\ Len(moves.out) = 3
    /\ AllCoincident
    /\ segments = << >>
    /\ totalLength = 0

\* n over d in lowest terms, d > 0.
Frac(n, d) ==
    LET RECURSIVE Gcd(_, _)
        Gcd(u, v) == IF v = 0 THEN u ELSE Gcd(v, u % v)
        g == Gcd(Abs(n), d)
    IN << n \div g, d \div g >>

\* The point of a distToPoint value is the point (x, y) over den.
IsPoint(at, x, y, den) ==
    /\ Frac(at.x, at.den) = Frac(x, den)
    /\ Frac(at.y, at.den) = Frac(y, den)

\* C15.  distToPoint, end and empty cases: without a segment distToPoint(d)
\* is null for every d; with one it is never null, and for every d at or
\* past totalLength it is the end point (x2, y2) of the last segment with
\* the angle stored in the last segment.
C15_LocatedEndAndEmpty ==
    located.by = "distToPoint" =>
        /\ segments = << >> => located.out = << >>
        /\ segments # << >> => located.out # << >>
        /\ (segments # << >> /\ located.d >= totalLength) =>
              LET last == segments[Len(segments)]
                  at == located.out[1]
              IN /\ IsPoint(at, last.x2, last.y2, last.den)
                 /\ at.angle = last.angle

\* On a path of two segments with different angles, distToPoint past the
\* end of the path is at the end of the second.
C15_Witness ==
    /\ located.by = "distToPoint"
    /\ Len(segments) = 2
    /\ segments[1].angle # segments[2].angle
    /\ segments[2].angle # << >>
    /\ located.d > totalLength
    /\ located.out # << >>
    /\ located.out[1].x = segments[2].x2
    /\ located.out[1].angle = segments[2].angle

\* The first segment that ends at or after the distance d.
FirstEndingAtOrAfter(d) ==
    CHOOSE i \in 1..Len(segments) :
        /\ segments[i].cumEnd >= d
        /\ \A k \in 1..(i - 1) : segments[k].cumEnd < d

\* The segment's angle is the heading of the move it ends at.
HasDestinationHeading(seg) ==
    \E j \in 2..Len(moves.out) :
        /\ moves.out[j - 1].p = Canvas(seg.x1, seg.y1, seg.den)
        /\ moves.out[j].p = Canvas(seg.x2, seg.y2, seg.den)
        /\ moves.out[j].c = seg.angle

\* C16.  distToPoint, interior case: for 0 <= d <= totalLength on a path
\* with a segment, distToPoint(d) takes the first segment whose cumEnd is
\* at least d, is the point at the fraction (d - cumStart) / len of the way
\* from the segment's start to its end, and carries the angle and the
\* angleDiff stored in that segment, the angle being the heading of the
\* move the segment ends at.
C16_LocatedInterior ==
    ( /\ located.by = "distToPoint"
      /\ segments # << >>
      /\ 0 <= located.d
      /\ located.d <= totalLength )
    => LET seg == segments[FirstEndingAtOrAfter(located.d)]
           at == located.out[1]
           part == located.d - seg.cumStart
       IN /\ located.out # << >>
          /\ 0 <= part /\ part <= seg.len
          /\ IsPoint(at, seg.x1 * seg.len + (seg.x2 - seg.x1) * part,
                         seg.y1 * seg.len + (seg.y2 - seg.y1) * part,
                         seg.den * seg.len)
          /\ at.angle = seg.angle
          /\ at.angleDiff = seg.angleDiff
          /\ HasDestinationHeading(seg)

\* distToPoint at the joint of two segments with different angles: the
\* end of the first segment, with the first segment's angle.
C16_Witness ==
    /\ located.by = "distToPoint"
    /\ Len(segments) = 2
    /\ segments[1].angle # segments[2].angle
    /\ segments[1].angle # << >>
    /\ located.d = segments[1].cumEnd
    /\ located.out # << >>
    /\ located.out[1].angle = segments[1].angle
    /\ located.out[1].angleDiff = segments[1].angleDiff

\* C17.  Angular difference bound: getAngleDifference(a, b) is at least 0
\* and at most 180, and is the separation of the two headings (b - a up to
\* sign and whole turns); in particular getAngleDifference(prev,
\* normalizeAngle(a, prev)) is at most 180 with shortestPath on.
C17_AngleDifferenceBound ==
    /\ measured.by = "getAngleDifference" =>
          /\ 0 <= measured.out /\ measured.out <= 180000
          /\ \/ (measured.b - measured.a - measured.out) % 360000 = 0
             \/ (measured.b - measured.a + measured.out) % 360000 = 0
    /\ ( /\ measured.by = "normalizeAngle"
         /\ machineSettings.shortestPath
         /\ measured.prev # << >> )
          => 0 <= measured.diff[1] /\ measured.diff[1] <= 180000

\* Two headings more than half a turn apart, b below a: the difference is
\* taken the short way round and is positive.
C17_Witness ==
    /\ measured.by = "getAngleDifference"
    /\ measured.b - measured.a < -180000
    /\ measured.out > 0
    /\ measured.out < 180000

\* C18.  Fold range: with prevAngle null or shortestPath off,
\* normalizeAngle(a, prevAngle) is in (-180, 180] under angleMode
\* '-180-180' and in [0, 360) otherwise, whatever the angle and the
\* angleOffset; and with shortestPath off it is the same for every
\* prevAngle.
C18_FoldRange ==
    measured.by = "normalizeAngle" =>
        /\ (measured.prev = << >> \/ ~machineSettings.shortestPath) =>
              IF machineSettings.angleMode = "-180-180"
              THEN -180000 < measured.out /\ measured.out <= 180000
              ELSE 0 <= measured.out /\ measured.out < 360000
        /\ ~machineSettings.shortestPath =>
              \A p \in PrevSet :
                  normalizeAngle(measured.a, p, machineSettings) = measured.out

\* shortestPath off, mode 0-360, an angle that is negative with its offset
\* and a prevAngle more than half a turn from the result.
C18_Witness ==
    /\ measured.by = "normalizeAngle"
    /\ ~machineSettings.shortestPath
    /\ machineSettings.angleMode = "0-360"
    /\ measured.a + machineSettings.angleOffset < 0
    /\ measured.prev # << >>
    /\ measured.out - measured.prev[1] > 180000
    /\ measured.out > 0

\* C19.  Heading convention: angleDeg(dx, dyCanvas) is in [0, 360) and is
\* the counter-clockwise angle from +X of the direction (dx, -dyCanvas):
\* 0 for +X, 90 for up on the canvas (dyCanvas < 0, dx = 0), 180 for -X,
\* 270 for down on the canvas, and in the quadrant of (dx, -dyCanvas)
\* otherwise.
C19_HeadingConvention ==
    measured.by = "angleDeg" =>
        LET dx == measured.dx
            dy == measured.dyCanvas
            out == measured.out
        IN /\ 0 <= out /\ out < 360000
           /\ (dx > 0 /\ dy = 0) => out = 0
           /\ (dx = 0 /\ dy < 0) => out = 90000
           /\ (dx < 0 /\ dy = 0) => out = 180000
           /\ (dx = 0 /\ dy > 0) => out = 270000
           /\ (dx > 0 /\ dy < 0) => 0 < out /\ out < 90000
           /\ (dx < 0 /\ dy < 0) => 90000 < out /\ out < 180000
           /\ (dx < 0 /\ dy > 0) => 180000 < out /\ out < 270000
           /\ (dx > 0 /\ dy > 0) => 270000 < out /\ out < 360000

\* Straight up on the canvas is 90 degrees.
C19_Witness ==
    /\ measured.by = "angleDeg"
    /\ measured.dx = 0
    /\ measured.dyCanvas < 0
    /\ measured.out = 90000

\* Nothing of the line is outside a comment: the line is blank, a ';'
\* comment, or a parenthesized comment.
IsCommentOnlyLine(l) == l.words = << >>

\* C20.  Comment-only input: a text whose every line is blank, a ';'
\* comment or a parenthesized comment gives no sample in parseGCode, and
\* no move and no segment in buildPreviewFromGCode.
C20_CommentOnlyInput ==
    (\A i \in 1..Len(text) : IsCommentOnlyLine(text[i])) =>
        /\ parsed.by # "none" => parsed.out = << >>
        /\ moves.by # "none" =>
              moves.out = << >> /\ segments = << >> /\ totalLength = 0

\* The words of a line that carry the letter.
WordsOf(w, letter) == SelectSeq(w, LAMBDA x : x.l = letter /\ x.ok)

\* The words of a line other than its C words.
WithoutC(w) == SelectSeq(w, LAMBDA x : x.l # "C" /\ x.ok)

\* The output line is the input line with nothing changed but the heading:
\* the same move kind, the same X, Y, Z and F, the same other words and
\* comment, one C word and the ORI comment.
OnlyHeadingAdded(in, out) ==
    /\ \A letter \in { "G", "X", "Y", "Z", "F" } :
          WordsOf(out.words, letter) = WordsOf(in.words, letter)
    /\ WithoutC(out.words) = WithoutC(in.words)
    /\ Len(WordsOf(out.words, "C")) = 1
    /\ out.comment.ori = << WordsOf(out.words, "C")[1].v >>
    /\ out.comment.text = in.comment.text

\* C23.  Oriented-from-base changes nothing but the heading:
\* generateOrientedGCodeFromBase gives one line per line of its input, in
\* the same order; a blank line, a line that is only a comment and a line
\* that is no motion line are copied as they are; a motion line keeps its
\* move kind and its X, Y, Z and F and gains only a C word and an ORI
\* comment.
C23_OnlyHeadingChanges ==
    oriented.by # "none" =>
        /\ Len(oriented.out) = Len(text)
        /\ \A i \in 1..Len(text) :
              IF IsCommentOnlyLine(text[i]) \/ ~IsMotionLine(text[i])
              THEN oriented.out[i] = text[i]
              ELSE \/ oriented.out[i] = text[i]
                   \/ OnlyHeadingAdded(text[i], oriented.out[i])

\* The alert of reader.onload for a text without geometry.
NoMovesAlert == << "No XY moves found in the selected G-code." >>

\* C21. Import with no geometry: when reader.onload parses a text that
\* yields no sample it raises the "No XY moves" alert and leaves the control
\* points, both program texts and the whole preview state (segments, total
\* length, distance, loaded flag, playing, mode, timestamp, pending frames)
\* as they were.
C21_ImportWithoutGeometry ==
    [][ (ReaderOnload /\ parseGCode(Head(reading), machineSettings) = << >>)
        => /\ alerted' = NoMovesAlert
           /\ UNCHANGED << points, curveResolution, gcodeOutput, gcodeOutputOriented, loadedVars,
                           playVars >> ]_vars

\* An import without geometry was reported while a program of two control
\* points was loaded in the preview.
C21_Witness ==
    /\ alerted = NoMovesAlert
    /\ Len(points) = 2
    /\ gcodeLoaded
    /\ totalLength > 0
    /\ gcodeOutput # << >>

\* C22. Playback distance stays in range: in every state reached by
\* animation steps with a speed of 0 or more, slider scrubs, resets, edits,
\* imports and regenerations, 0 <= preview.currentDist <= preview.totalLength;
\* drawPreviewOverlay gives distToPoint that distance.
C22_DistanceInRange ==
    /\ 0 <= currentDist
    /\ currentDist <= totalLength

\* A frame that would have passed the end of a path left the distance at
\* the end.
C22_Witness ==
    /\ totalLength > 0
    /\ currentDist = totalLength
    /\ lastTs # << >>
    /\ ~playing

\* C24. Every edit invalidates the preview: right after a step of an editor
\* handler (click, drag move, context-menu or touch deletion, clear all,
\* resolution slider) that changed the control points or the resolution,
\* preview.segments is empty, preview.totalLength and preview.currentDist
\* are 0 and preview.gcodeLoaded is false.
C24_EditInvalidatesPreview ==
    [][ (Edit /\ (points' # points \/ curveResolution' # curveResolution))
        => /\ segments' = << >>
           /\ totalLength' = 0
           /\ currentDist' = 0
           /\ gcodeLoaded' = FALSE ]_vars

\* A program was generated and previewed, then an edit changed the points
\* or the resolution it was made from, and the preview is cleared.
C24_Witness ==
    /\ gcodeOutput # << >>
    /\ Len(points) >= 2
    /\ gcodeOutput # generateGCodeString(points, curveResolution, machineSettings)
    /\ ~gcodeLoaded
    /\ segments = << >>

\* C26. Playing implies a playable path: in every reachable state,
\* preview.playing implies preview.gcodeLoaded and preview.totalLength > 0,
\* so that togglePlay(false) passes both of its checks and stops playback.
C26_PlayingImpliesPlayable ==
    playing =>
        /\ gcodeLoaded
        /\ totalLength > 0
        /\ togglePlay(<< FALSE >>).playing = FALSE

\* The segments buildPreviewFromGCode stores for the program txt.
SegmentsOf(txt) == PreviewSegments(buildPreviewFromGCode(txt, machineSettings))

\* The programs the generators make from the current control points and
\* resolution: the base program, and the oriented program over it or, with
\* no base, from the points.
FreshPrograms ==
    LET base == generateGCodeString(points, curveResolution, machineSettings)
    IN { base,
         generateOrientedGCodeString(base, points, curveResolution,
                                     machineSettings),
         generateOrientedGCodeString(<< >>, points, curveResolution,
                                     machineSettings) }

\* C27. Preview freshness: whenever preview.gcodeLoaded is true, the
\* preview's segments are those of a program generated from the current
\* control points and resolution, after any sequence of edits, imports,
\* Generate, Generate Oriented and preview-mode switches.
C27_PreviewFresh ==
    gcodeLoaded => \E txt \in FreshPrograms : segments = SegmentsOf(txt)

\* C28. Drag target stays valid: in every reachable state where isDragging
\* is true, selectedPoint is an index with 0 <= selectedPoint <
\* points.length, so that a move event writes to an existing point.
C28_DragTargetValid ==
    isDragging =>
        /\ selectedPoint # << >>
        /\ 0 <= selectedPoint[1]
        /\ selectedPoint[1] < Len(points)

\* C29. A drag never adds or deletes: the click delivered at the end of a
\* drag gesture (mousedown on a point, one or more mousemove, mouseup), the
\* dragged point lying under the pointer where it was released, is ignored
\* with delete mode on or off: it leaves the number of control points, and
\* the points, as they were.
C29_DragClickIgnored ==
    [][ (/\ Click
         /\ gesture[1].picked
         /\ gesture[1].moved
         /\ getPointAt(points, gesture[1].at) # << >>)
        => /\ Len(points') = Len(points)
           /\ points' = points ]_vars

\* C30. Touch deletion works: at the touchend of a tap (no touchmove since
\* the touchstart, the points under it as they were at the touchstart), with
\* delete mode on and an existing control point under the tap exactly that
\* point is removed; with delete mode off and no point under the tap exactly
\* one point is appended at the tap position.
C30_TapDeletesOrAdds ==
    [][ (/\ TouchEnd
         /\ ~gesture[1].moved
         /\ gesture[1].picked = (getPointAt(points, gesture[1].at) # << >>))
        => LET pos == gesture[1].at
               idx == getPointAt(points, pos)
           IN /\ (deleteMode /\ idx # << >>) => points' = Splice(points, idx[1])
              /\ (~deleteMode /\ idx = << >>) => points' = Append(points, pos) ]_vars

\* Playback has stopped at the end of the path and no frame is pending.
StoppedAtEnd == currentDist = totalLength /\ ~playing /\ frames = 0

\* Once started, playback reaches the end of the path and is stopped there.
AutoStopReached == Started ~> StoppedAtEnd

\* The frame of a running playback that brings preview.currentDist to
\* preview.totalLength clears preview.playing and requests no frame.
AutoStopAtEnd ==
    [][ ((\E dt \in DtSet : Step(dt)) /\ playing /\ currentDist' = totalLength')
        => (~playing' /\ frames' = frames - 1) ]_vars

\* C25. Playback auto-stops: once playback is started with a positive
\* speed, if the requested animation frames keep being delivered then
\* preview.currentDist eventually equals preview.totalLength, and the frame
\* that brings it there sets preview.playing to false and requests no
\* further frame.
C25_PlaybackAutoStops == AutoStopReached /\ AutoStopAtEnd

=============================================================================
